---- MODULE Spec2Model ----
(***************************************************************************)
(* Model of the CSV ingestion and aggregation pipeline of the Firebase     *)
(* Analytics CSV dashboard (CSVAnalyticsRepository, CSVAnalyticsService).  *)
(*                                                                         *)
(* A JavaScript string is a sequence of one-character strings, so that     *)
(* trim, startsWith, includes, split, parseInt and the regular expressions *)
(* are computed on the characters.  Indices are 1-based: index 0 stands    *)
(* for the code's -1, and the code's index i is i+1 here.                  *)
(***************************************************************************)
EXTENDS Integers, Sequences, FiniteSets, TLC

VARIABLES
    pc,             \* the step the modelled call has reached
    content,        \* fs.readFileSync(filePath): the characters of the file
    sectionHeader,  \* parseCSV's second argument (<<>> when not given)
    scan,           \* parseCSV's locals headerIndex, dataStartIndex, dataEndIndex
    records,        \* the value parseCSV returns
    loader,         \* the dataset loader that is called
    result,         \* what the loader returns or throws
    events,         \* the rows loadEventsData returned to the aggregation
    screenViews,    \* the rows loadScreenViewsData returned to the aggregation
    topFeatures,    \* the value analyzeFeatureUsage returns
    features,       \* the features getFeatureUsageAnalysis returns
    folder,         \* this.csvDir on disk: its entries in readdirSync order
    today,          \* new Date(), as a calendar day
    pattern,        \* findCSVFile's argument
    located,        \* the entry findCSVFile returned, or the loader read
    dateRange,      \* the value getDefaultDateRange returns
    response,       \* what the analytics route answers
    folderName,     \* the folder query parameter of the report route
    summary,        \* the value getDashboardSummary returns to generateReportData
    csvData,        \* the lines of the text convertToCSV returns
    searchParams,   \* the page: the folder parameter of the URL (<<>> when absent)
    selectedFolder, \* the page: useState('default')
    data,           \* the page: useState(null), the summary shown
    loading,        \* the page: useState(true)
    error,          \* the page: useState(null)
    folders,        \* the page: useState([])
    navigation,     \* the page: the URL router.push was called with, until it is current
    calls,          \* the page: the fetchDashboardData calls, in the order issued
    foldersPending, \* the page: the fetchFolders calls awaiting their response
    query,          \* the folder query parameter a route hands to the repository
    csvDir          \* this.csvDir of the repository

parseVars == <<content, sectionHeader, scan, records>>

loadVars == <<loader, result>>

featureVars == <<events, screenViews, topFeatures, features>>

requestVars == <<folder, today, pattern, located, dateRange, response>>

reportVars == <<folderName, summary, csvData>>

pageVars ==
    <<searchParams, selectedFolder, data, loading, error, folders, navigation, calls,
      foldersPending>>

pathVars == <<query, csvDir>>

vars == <<pc, parseVars, loadVars, featureVars, requestVars, reportVars, pageVars, pathVars>>

-----------------------------------------------------------------------------
(* Bounds *)

MaxLines == 4
MaxRows == 3
MaxEvents == 2
MaxScreens == 2

-----------------------------------------------------------------------------
(* String primitives *)

Whitespace == {" ", "\t"}

Min(a, b) == IF a < b THEN a ELSE b

RECURSIVE TrimStart(_)
TrimStart(s) ==
    IF s # <<>> /\ Head(s) \in Whitespace THEN TrimStart(Tail(s)) ELSE s

RECURSIVE TrimEnd(_)
TrimEnd(s) ==
    IF s # <<>> /\ s[Len(s)] \in Whitespace
    THEN TrimEnd(SubSeq(s, 1, Len(s) - 1))
    ELSE s

Trim(s) == TrimEnd(TrimStart(s))

StartsWith(s, p) == Len(p) <= Len(s) /\ SubSeq(s, 1, Len(p)) = p

EndsWith(s, p) ==
    Len(p) <= Len(s) /\ SubSeq(s, Len(s) - Len(p) + 1, Len(s)) = p

Includes(s, p) ==
    \E i \in 0..(Len(s) - Len(p)) : SubSeq(s, i + 1, i + Len(p)) = p

\* the position of the k-th occurrence of the character sep in s
SeparatorAt(s, sep, k) ==
    CHOOSE i \in 1..Len(s) :
        s[i] = sep /\ Cardinality({j \in 1..(i - 1) : s[j] = sep}) = k - 1

\* s.split(sep) for a one-character separator: the pieces between
\* consecutive separators, always at least one piece
Split(s, sep) ==
    LET n == Cardinality({i \in 1..Len(s) : s[i] = sep}) IN
    [k \in 1..(n + 1) |->
        SubSeq(s,
               IF k = 1 THEN 1 ELSE SeparatorAt(s, sep, k - 1) + 1,
               IF k = n + 1 THEN Len(s) ELSE SeparatorAt(s, sep, k) - 1)]

\* pieces.join(sep).  (Here and in the loops over the rows of an export
\* below, the list is walked in order, one half after the other; a loop that
\* builds a map or a sorted list tests that what the first half built is no
\* shorter than what it started from, which is always so, and has the first
\* half evaluated before the second is walked.  Both keep the evaluation
\* shallow on exports of many rows.)
RECURSIVE Join(_, _)
Join(pieces, sep) ==
    IF pieces = <<>> THEN <<>>
    ELSE IF Len(pieces) = 1 THEN pieces[1]
    ELSE LET half == Len(pieces) \div 2 IN
         Join(SubSeq(pieces, 1, half), sep) \o sep
         \o Join(SubSeq(pieces, half + 1, Len(pieces)), sep)

-----------------------------------------------------------------------------
(* Literals of the program *)

NL == <<"\n">>
Hash == <<"#">>
Comma == <<",">>
StartDateMarker == <<"S","t","a","r","t"," ","d","a","t","e",":">>
Marker30Days == <<"3","0"," ","d","a","y","s">>

-----------------------------------------------------------------------------
(* parseCSV *)

\* (mutation: comment lines are not skipped by the header scan)
IsSkippedLine_NoComment(line) == line = <<>>

\* if (!line || line.startsWith('#')) continue;   (line is already trimmed)
IsSkippedLine(line) == line = <<>> \/ StartsWith(line, Hash)

\* sectionHeader && line.includes(sectionHeader)
\*   || !sectionHeader && line.includes(',')
IsHeaderLine(line, marker) ==
    IF marker # <<>> THEN Includes(line, marker) ELSE Includes(line, Comma)

\* (mutation: every comment line ends the section)
IsSectionBoundary_AnyComment(raw) == StartsWith(Trim(raw), Hash)

\* lines[j].trim().startsWith('#') && lines[j].includes('Start date:')
IsSectionBoundary(raw) ==
    StartsWith(Trim(raw), Hash) /\ Includes(raw, StartDateMarker)

\* the inner loop over j: the first boundary at or after index j, else the
\* initial value lines.length of dataEndIndex (one past the last line)
RECURSIVE FindDataEnd(_, _)
FindDataEnd(lines, j) ==
    IF j > Len(lines) THEN Len(lines) + 1
    ELSE IF IsSectionBoundary(lines[j]) THEN j
    ELSE FindDataEnd(lines, j + 1)

\* the outer loop over i
RECURSIVE FindHeader(_, _, _)
FindHeader(lines, marker, i) ==
    IF i > Len(lines) THEN 0
    ELSE LET line == Trim(lines[i]) IN
         IF IsSkippedLine(line) THEN FindHeader(lines, marker, i + 1)
         ELSE IF IsHeaderLine(line, marker) THEN i
         ELSE FindHeader(lines, marker, i + 1)

ScanSection(lines, marker) ==
    LET h == FindHeader(lines, marker, 1) IN
    IF h = 0
    THEN [headerIndex |-> 0, dataStartIndex |-> 0, dataEndIndex |-> Len(lines) + 1]
    ELSE [headerIndex |-> h, dataStartIndex |-> h + 1,
          dataEndIndex |-> FindDataEnd(lines, h + 1)]

\* (mutation: comment lines are kept as data lines)
IsDataLine_KeepComments(raw) == Trim(raw) # <<>>

\* .filter(line => { const trimmed = line.trim(); return trimmed && !trimmed.startsWith('#'); })
IsDataLine(raw) == LET trimmed == Trim(raw) IN
    trimmed # <<>> /\ ~StartsWith(trimmed, Hash)

\* lines.slice(from, to).filter(...): the data lines among lines[from..to-1]
RECURSIVE DataLinesFrom(_, _, _)
DataLinesFrom(lines, from, to) ==
    IF from >= to \/ from > Len(lines) THEN <<>>
    ELSE IF IsDataLine(lines[from])
         THEN <<lines[from]>> \o DataLinesFrom(lines, from + 1, to)
         ELSE DataLinesFrom(lines, from + 1, to)

DataLines(lines, sc) == DataLinesFrom(lines, sc.dataStartIndex, sc.dataEndIndex)

\* the cells of one line: split on the delimiter, each cell trimmed
Cells(raw) ==
    LET fields == Split(raw, ",") IN [k \in 1..Len(fields) |-> Trim(fields[k])]

\* One record of csv-parse with columns: true and relax_column_count: a
\* sequence of <<column, value>> pairs, one per field that has a column;
\* fields beyond the last column are dropped, columns beyond the last field
\* are absent from the record.
StructuredRecord(cols, raw) ==
    LET cells == Cells(raw) IN
    [k \in 1..Min(Len(cols), Len(cells)) |-> <<cols[k], cells[k]>>]

\* parse([header, ...dataLines].join('\n'), {columns: true, trim: true, ...})
StructuredParse(header, dataLines) ==
    LET cols == Cells(header) IN
    [k \in 1..Len(dataLines) |-> StructuredRecord(cols, dataLines[k])]

Quote == "\""

\* csv-parse's state while it reads the text: inside a quoted field, after
\* the closing quote of the field, after an escaping quote, the characters
\* of the field, the fields of the record, the records, and whether it threw
CsvStart ==
    [quoting |-> FALSE, wasQuoting |-> FALSE, escaping |-> FALSE,
     field |-> <<>>, record |-> <<>>, rows |-> <<>>, error |-> FALSE]

\* __onField: an unquoted field is right-trimmed (trim: true)
EndField(st) ==
    [st EXCEPT !.record = Append(st.record,
                              IF st.wasQuoting THEN st.field ELSE TrimEnd(st.field)),
               !.field = <<>>,
               !.wasQuoting = FALSE]

\* __onRecord
EndRecord(st) ==
    LET s == EndField(st) IN
    [s EXCEPT !.rows = Append(s.rows, s.record), !.record = <<>>]

\* the end of the loop body: the character is appended to the field, skipped
\* as leading or trailing white space, or rejected after a closing quote
\* (CSV_NON_TRIMABLE_CHAR_AFTER_CLOSING_QUOTE)
AppendChar(st, c) ==
    LET lappend == st.quoting \/ st.field # <<>> \/ c \notin Whitespace
        rappend == ~st.wasQuoting
    IN  IF lappend /\ rappend THEN [st EXCEPT !.field = Append(st.field, c)]
        ELSE IF c \notin Whitespace THEN [st EXCEPT !.error = TRUE]
        ELSE st

\* a delimiter outside quotes ends the record or the field; an empty line is
\* skipped (skip_empty_lines)
PlainChar(st, c) ==
    IF st.quoting THEN AppendChar(st, c)
    ELSE IF c = "\n"
    THEN (IF ~st.wasQuoting /\ st.record = <<>> /\ st.field = <<>> THEN st
          ELSE EndRecord(st))
    ELSE IF c = "," THEN EndField(st)
    ELSE AppendChar(st, c)

\* one character of the text; next is the character after it, "" at the end.
\* A quote inside quotes escapes a following quote, closes the field before
\* a delimiter, white space or the end, and is otherwise kept under
\* relax_quotes, which the trailing-character check then rejects; a quote
\* outside quotes opens a quoted field at the start of a field and is an
\* ordinary character elsewhere.
CsvChar(st, c, next) ==
    IF st.escaping THEN AppendChar([st EXCEPT !.escaping = FALSE], c)
    ELSE IF c = Quote /\ st.quoting /\ next = Quote THEN [st EXCEPT !.escaping = TRUE]
    ELSE IF c = Quote /\ st.quoting
    THEN (IF next = "" \/ next = "," \/ next = "\n" \/ next \in Whitespace
          THEN [st EXCEPT !.quoting = FALSE, !.wasQuoting = TRUE]
          ELSE PlainChar([st EXCEPT !.quoting = FALSE, !.wasQuoting = TRUE,
                                    !.field = <<Quote>> \o st.field], c))
    ELSE IF c = Quote /\ st.field = <<>> THEN [st EXCEPT !.quoting = TRUE]
    ELSE PlainChar(st, c)

\* the end of the text: an open quote throws (CSV_QUOTE_NOT_CLOSED), a last
\* line without line break is a record
CsvEnd(st) ==
    IF st.quoting THEN [st EXCEPT !.error = TRUE]
    ELSE IF st.wasQuoting \/ st.record # <<>> \/ st.field # <<>> THEN EndRecord(st)
    ELSE st

RECURSIVE CsvScan(_, _, _)
CsvScan(text, pos, st) ==
    IF st.error THEN st
    ELSE IF pos > Len(text) THEN CsvEnd(st)
    ELSE CsvScan(text, pos + 1,
                 CsvChar(st, text[pos], IF pos < Len(text) THEN text[pos + 1] ELSE ""))

\* columns: true with relax_column_count: the first row names the columns
ColumnRecord(cols, cells) ==
    [k \in 1..Min(Len(cols), Len(cells)) |-> <<cols[k], cells[k]>>]

Parsed(recs) == [failed |-> FALSE, records |-> recs]

ParseFailure == [failed |-> TRUE, records |-> <<>>]

\* parse(text, {columns: true, skip_empty_lines: true, trim: true,
\* relax_column_count: true, relax_quotes: true}): the records, or the throw
QuotedParse(text) ==
    LET st == CsvScan(text, 1, CsvStart) IN
    IF st.error THEN ParseFailure
    ELSE IF st.rows = <<>> THEN Parsed(<<>>)
    ELSE Parsed([k \in 1..(Len(st.rows) - 1) |-> ColumnRecord(st.rows[1], st.rows[k + 1])])

\* the parse of [header, ...dataLines].join('\n'): without a quote in the
\* text every line is a record and every comma a delimiter
Parse(header, dataLines) ==
    LET text == Join(<<header>> \o dataLines, <<"\n">>) IN
    IF \E k \in 1..Len(text) : text[k] = Quote
    THEN QuotedParse(text)
    ELSE Parsed(StructuredParse(header, dataLines))

\* headerCols.forEach((col, idx) => { record[col] = cols[idx] || ''; })
FallbackRecord(headerCols, cols) ==
    [k \in 1..Len(headerCols) |->
        <<headerCols[k], IF k <= Len(cols) THEN cols[k] ELSE <<>>>>]

\* (mutation: the lines are zipped with the header without trimming and
\* without filling the missing cells)
FallbackParse_Unfilled(header, dataLines) ==
    [k \in 1..Len(dataLines) |->
        [j \in 1..Min(Len(Split(header, ",")), Len(Split(dataLines[k], ","))) |->
            <<Split(header, ",")[j], Split(dataLines[k], ",")[j]>>]]

\* the catch block: each data line split on commas, zipped with the header
FallbackParse(header, dataLines) ==
    LET headerCols == Cells(header) IN
    [k \in 1..Len(dataLines) |-> FallbackRecord(headerCols, Cells(dataLines[k]))]

parseCSV(text, marker) ==
    LET lines == Split(text, "\n")
        sc    == ScanSection(lines, marker)
    IN  IF sc.headerIndex = 0 THEN <<>>
        ELSE LET dataLines == DataLines(lines, sc) IN
             IF dataLines = <<>> THEN <<>>
             ELSE LET outcome == Parse(lines[sc.headerIndex], dataLines) IN
                  IF outcome.failed
                  THEN FallbackParse(lines[sc.headerIndex], dataLines)
                  ELSE outcome.records

\* record[col]: the value of the last pair with that column; a missing column
\* (undefined) reads as the empty string, which every use in the program
\* treats alike (record[col] || dflt, record[a] && record[b]).
RECURSIVE Get(_, _)
Get(record, col) ==
    IF record = <<>> THEN <<>>
    ELSE IF record[Len(record)][1] = col THEN record[Len(record)][2]
    ELSE Get(SubSeq(record, 1, Len(record) - 1), col)

-----------------------------------------------------------------------------
(* Numbers.  A JavaScript number is [nan, num, den]: NaN, or the rational   *)
(* num/den with den a power of ten (den = 1 for the results of parseInt).   *)

DigitChars == <<"0","1","2","3","4","5","6","7","8","9">>

IsDigit(c) == \E d \in 1..10 : DigitChars[d] = c

DigitValue(c) == (CHOOSE d \in 1..10 : DigitChars[d] = c) - 1

RECURSIVE DigitPrefix(_)
DigitPrefix(s) ==
    IF s # <<>> /\ IsDigit(Head(s)) THEN <<Head(s)>> \o DigitPrefix(Tail(s))
    ELSE <<>>

RECURSIVE ToNat(_)
ToNat(ds) ==
    IF ds = <<>> THEN 0
    ELSE 10 * ToNat(SubSeq(ds, 1, Len(ds) - 1)) + DigitValue(ds[Len(ds)])

RECURSIVE Pow10(_)
Pow10(n) == IF n = 0 THEN 1 ELSE 10 * Pow10(n - 1)

NaN == [nan |-> TRUE, num |-> 0, den |-> 1]

RECURSIVE GCD(_, _)
GCD(a, b) == IF b = 0 THEN a ELSE GCD(b, a % b)

Abs(n) == IF n < 0 THEN -n ELSE n

\* the number n/d (d > 0), in lowest terms so that equal numbers are equal
\* values of the model
Number(n, d) ==
    LET g == GCD(Abs(n), d) IN [nan |-> FALSE, num |-> n \div g, den |-> d \div g]

\* a < b
Less(a, b) == ~a.nan /\ ~b.nan /\ a.num * b.den < b.num * a.den

\* a + b
Add(a, b) ==
    IF a.nan \/ b.nan THEN NaN
    ELSE Number(a.num * b.den + b.num * a.den, a.den * b.den)

\* Math.max(a, b)
MathMax(a, b) == IF a.nan \/ b.nan THEN NaN ELSE IF Less(a, b) THEN b ELSE a

\* a || 1
OrOne(a) == IF a.nan \/ a.num = 0 THEN Number(1, 1) ELSE a

\* a / b for b # 0 (the only divisor of the program is OrOne(...))
Div(a, b) ==
    IF a.nan \/ b.nan THEN NaN
    ELSE IF b.num < 0 THEN Number(-(a.num * b.den), a.den * (-b.num))
    ELSE Number(a.num * b.den, a.den * b.num)

Sign(t) == IF t # <<>> /\ Head(t) = "-" THEN -1 ELSE 1

Unsigned(t) == IF t # <<>> /\ Head(t) \in {"-", "+"} THEN Tail(t) ELSE t

\* parseInt(s, 10): leading whitespace, an optional sign, the longest run of
\* digits; NaN when there is no digit
parseInt(s) ==
    LET t  == TrimStart(s)
        ds == DigitPrefix(Unsigned(t))
    IN  IF ds = <<>> THEN NaN ELSE Number(Sign(t) * ToNat(ds), 1)

\* parseFloat(s): as parseInt, with an optional fraction after a '.'
\* (exponents and "Infinity" do not occur in the cells of the model)
parseFloat(s) ==
    LET t    == TrimStart(s)
        body == Unsigned(t)
        ip   == DigitPrefix(body)
        rest == SubSeq(body, Len(ip) + 1, Len(body))
        fp   == IF rest # <<>> /\ Head(rest) = "."
                THEN DigitPrefix(Tail(rest)) ELSE <<>>
    IN  IF ip = <<>> /\ fp = <<>> THEN NaN
        ELSE Number(Sign(t) * (ToNat(ip) * Pow10(Len(fp)) + ToNat(fp)),
                    Pow10(Len(fp)))

Zero == <<"0">>

\* cell || dflt
OrElse(cell, dflt) == IF cell = <<>> THEN dflt ELSE cell

-----------------------------------------------------------------------------
(* Calendar days (date-fns parseISO, eachDayOfInterval, format) *)

IsLeapYear(y) == (y % 4 = 0 /\ y % 100 # 0) \/ y % 400 = 0

DaysInMonth(y, m) ==
    IF m = 2 THEN (IF IsLeapYear(y) THEN 29 ELSE 28)
    ELSE IF m \in {4, 6, 9, 11} THEN 30 ELSE 31

\* `${s.substring(0, 4)}-${s.substring(4, 6)}-${s.substring(6, 8)}`
IsoText(s) ==
    SubSeq(s, 1, 4) \o <<"-">> \o SubSeq(s, 5, 6) \o <<"-">> \o SubSeq(s, 7, 8)

\* parseISO of a YYYY-MM-DD text: Invalid Date for a month or day out of range
parseISO(iso) ==
    LET y == ToNat(SubSeq(iso, 1, 4))
        m == ToNat(SubSeq(iso, 6, 7))
        d == ToNat(SubSeq(iso, 9, 10))
    IN  [valid |-> m \in 1..12 /\ d >= 1 /\ d <= DaysInMonth(y, m),
         y |-> y, m |-> m, d |-> d]

NextDay(t) ==
    IF t.d < DaysInMonth(t.y, t.m) THEN [t EXCEPT !.d = t.d + 1]
    ELSE IF t.m < 12 THEN [t EXCEPT !.m = t.m + 1, !.d = 1]
    ELSE [t EXCEPT !.y = t.y + 1, !.m = 1, !.d = 1]

DateBefore(a, b) ==
    \/ a.y < b.y
    \/ a.y = b.y /\ a.m < b.m
    \/ a.y = b.y /\ a.m = b.m /\ a.d < b.d

\* eachDayOfInterval({start, end}) for start <= end
RECURSIVE eachDayOfInterval(_, _)
eachDayOfInterval(start, end) ==
    IF ~DateBefore(start, end) THEN <<start>>
    ELSE <<start>> \o eachDayOfInterval(NextDay(start), end)

Reverse(s) == [i \in 1..Len(s) |-> s[Len(s) + 1 - i]]

RECURSIVE PadDigits(_, _)
PadDigits(n, width) ==
    IF width = 0 THEN <<>>
    ELSE PadDigits(n \div 10, width - 1) \o <<DigitChars[(n % 10) + 1]>>

\* format(date, 'yyyy-MM-dd')
FormatDate(t) ==
    PadDigits(t.y, 4) \o <<"-">> \o PadDigits(t.m, 2) \o <<"-">> \o PadDigits(t.d, 2)

-----------------------------------------------------------------------------
(* Dataset loaders *)

ColNthDay == <<"N","t","h"," ","d","a","y">>
Col30Days == Marker30Days
Col7Days == <<"7"," ","d","a","y","s">>
Col1Day == <<"1"," ","d","a","y">>
ColScreenClass == <<"P","a","g","e"," ","t","i","t","l","e"," ","a","n","d"," ","s","c","r","e","e","n"," ","c","l","a","s","s">>
ColViews == <<"V","i","e","w","s">>
ColActiveUsers == <<"A","c","t","i","v","e"," ","u","s","e","r","s">>
ColViewsPerUser == <<"V","i","e","w","s"," ","p","e","r"," ","a","c","t","i","v","e"," ","u","s","e","r">>
ColAvgEngagement == <<"A","v","e","r","a","g","e"," ","e","n","g","a","g","e","m","e","n","t"," ","t","i","m","e"," ","p","e","r"," ","a","c","t","i","v","e"," ","u","s","e","r">>
ColEventCount == <<"E","v","e","n","t"," ","c","o","u","n","t">>
ColKeyEvents == <<"K","e","y"," ","e","v","e","n","t","s">>
ColTotalRevenue == <<"T","o","t","a","l"," ","r","e","v","e","n","u","e">>
ColEventName == <<"E","v","e","n","t"," ","n","a","m","e">>
ColTotalUsers == <<"T","o","t","a","l"," ","u","s","e","r","s">>
ColEventCountPerUser == <<"E","v","e","n","t"," ","c","o","u","n","t"," ","p","e","r"," ","a","c","t","i","v","e"," ","u","s","e","r">>
StartDateLabel == <<"S","t","a","r","t"," ","d","a","t","e",":"," ">>
EndDateLabel == <<"E","n","d"," ","d","a","t","e",":"," ">>

Returned(rows) == [error |-> "none", rows |-> rows]

Thrown(kind) == [error |-> kind, rows |-> <<>>]

NoResult == [error |-> "pending", rows |-> <<>>]

\* (mutation: a default date stands in for a missing match)
MatchDate_OrDefault(text, label) ==
    LET n == Len(label)
        hits == {i \in 1..(Len(text) - n - 7) :
                    /\ SubSeq(text, i, i + n - 1) = label
                    /\ \A k \in 0..7 : IsDigit(text[i + n + k])}
    IN  IF hits = {} THEN <<"2","0","2","4","0","1","0","1">>
        ELSE LET i == CHOOSE h \in hits : \A g \in hits : h <= g
             IN  SubSeq(text, i + n, i + n + 7)

\* content.match(/<label>(\d{8})/): the eight digits of the leftmost match,
\* <<>> (null) when nothing matches
MatchDate(text, label) ==
    LET n == Len(label)
        hits == {i \in 1..(Len(text) - n - 7) :
                    /\ SubSeq(text, i, i + n - 1) = label
                    /\ \A k \in 0..7 : IsDigit(text[i + n + k])}
    IN  IF hits = {} THEN <<>>
        ELSE LET i == CHOOSE h \in hits : \A g \in hits : h <= g
             IN  SubSeq(text, i + n, i + n + 7)

\* .filter(record => record[a] && record[b])
RECURSIVE KeepWithBoth(_, _, _)
KeepWithBoth(recs, a, b) ==
    IF recs = <<>> THEN <<>>
    ELSE IF Get(Head(recs), a) # <<>> /\ Get(Head(recs), b) # <<>>
         THEN <<Head(recs)>> \o KeepWithBoth(Tail(recs), a, b)
         ELSE KeepWithBoth(Tail(recs), a, b)

\* const date = allDates[index] || startDate;
DateOfRow(allDates, index, startDate) ==
    IF index <= Len(allDates) THEN allDates[index] ELSE startDate

\* the .map callback of loadOverviewData
OverviewRow(record, date) ==
    [date |-> FormatDate(date),
     activeUsers30Days |-> parseInt(OrElse(Get(record, Col30Days), Zero)),
     activeUsers7Days  |-> parseInt(OrElse(Get(record, Col7Days), Zero)),
     activeUsers1Day   |-> parseInt(OrElse(Get(record, Col1Day), Zero))]

OverviewRows(kept, allDates, startDate) ==
    [i \in 1..Len(kept) |-> OverviewRow(kept[i], DateOfRow(allDates, i, startDate))]

\* loadOverviewData on a located file: the set of its possible outcomes.  An
\* interval whose end precedes its start makes eachDayOfInterval throw a
\* RangeError or return the days in descending order, depending on the
\* installed date-fns; an Invalid Date makes eachDayOfInterval or format
\* throw, except that nothing is formatted when no row is kept.
loadOverviewData(text) ==
    LET recs == parseCSV(text, Marker30Days)
        startDateStr == MatchDate(text, StartDateLabel)
        endDateStr   == MatchDate(text, EndDateLabel)
    IN  IF startDateStr = <<>> \/ endDateStr = <<>>
        THEN {Thrown("Could not extract date range from CSV")}
        ELSE LET startDate == parseISO(IsoText(startDateStr))
                 endDate   == parseISO(IsoText(endDateStr))
                 kept      == KeepWithBoth(recs, ColNthDay, Col30Days)
             IN  IF ~startDate.valid \/ ~endDate.valid
                 THEN {Thrown("RangeError")}
                      \cup (IF kept = <<>> THEN {Returned(<<>>)} ELSE {})
                 ELSE IF DateBefore(endDate, startDate)
                 THEN {Thrown("RangeError"),
                       Returned(OverviewRows(kept,
                           Reverse(eachDayOfInterval(endDate, startDate)),
                           startDate))}
                 ELSE {Returned(OverviewRows(kept,
                           eachDayOfInterval(startDate, endDate), startDate))}

\* the .map callback of loadScreenViewsData
ScreenRow(record) ==
    [screenClass        |-> Get(record, ColScreenClass),
     views              |-> parseInt(OrElse(Get(record, ColViews), Zero)),
     activeUsers        |-> parseInt(OrElse(Get(record, ColActiveUsers), Zero)),
     viewsPerActiveUser |-> parseFloat(OrElse(Get(record, ColViewsPerUser), Zero)),
     avgEngagementTime  |-> parseFloat(OrElse(Get(record, ColAvgEngagement), Zero)),
     eventCount         |-> parseInt(OrElse(Get(record, ColEventCount), Zero)),
     keyEvents          |-> parseInt(OrElse(Get(record, ColKeyEvents), Zero)),
     totalRevenue       |-> parseFloat(OrElse(Get(record, ColTotalRevenue), Zero))]

loadScreenViewsData(text) ==
    LET kept == KeepWithBoth(parseCSV(text, ColScreenClass), ColScreenClass, ColViews)
    IN  Returned([i \in 1..Len(kept) |-> ScreenRow(kept[i])])

\* the .map callback of loadEventsData
EventRow(record) ==
    [eventName         |-> Get(record, ColEventName),
     eventCount        |-> parseInt(OrElse(Get(record, ColEventCount), Zero)),
     totalUsers        |-> parseInt(OrElse(Get(record, ColTotalUsers), Zero)),
     eventCountPerUser |-> parseFloat(OrElse(Get(record, ColEventCountPerUser), Zero)),
     totalRevenue      |-> parseFloat(OrElse(Get(record, ColTotalRevenue), Zero))]

loadEventsData(text) ==
    LET kept == KeepWithBoth(parseCSV(text, ColEventName), ColEventName, ColEventCount)
    IN  Returned([i \in 1..Len(kept) |-> EventRow(kept[i])])

-----------------------------------------------------------------------------
(* Feature aggregation *)

UpperChars == <<"A","B","C","D","E","F","G","H","I","J","K","L","M","N","O","P","Q","R","S","T","U","V","W","X","Y","Z">>

LowerChars == <<"a","b","c","d","e","f","g","h","i","j","k","l","m","n","o","p","q","r","s","t","u","v","w","x","y","z">>

\* String.prototype.toLowerCase on the letters A-Z
LowerChar(c) ==
    IF \E k \in 1..26 : UpperChars[k] = c
    THEN LowerChars[CHOOSE k \in 1..26 : UpperChars[k] = c]
    ELSE c

ToLowerCase(str) == [k \in 1..Len(str) |-> LowerChar(str[k])]

NotSet == <<"(","n","o","t"," ","s","e","t",")">>
Other == <<"(","o","t","h","e","r",")">>
MenuPrefix == <<"m","e","n","u","_">>
KwLogin == <<"l","o","g","i","n">>
KwLogout == <<"l","o","g","o","u","t">>
KwSelect == <<"s","e","l","e","c","t","_">>
EvScreenView == <<"s","c","r","e","e","n","_","v","i","e","w">>
EvUserEngagement == <<"u","s","e","r","_","e","n","g","a","g","e","m","e","n","t">>
EvSessionStart == <<"s","e","s","s","i","o","n","_","s","t","a","r","t">>
EvAppUpdate == <<"a","p","p","_","u","p","d","a","t","e">>
EvOsUpdate == <<"o","s","_","u","p","d","a","t","e">>
EvFirstOpen == <<"f","i","r","s","t","_","o","p","e","n">>
KwDocument == <<"d","o","c","u","m","e","n","t">>
KwCourse == <<"c","o","u","r","s","e">>
KwDashboard == <<"d","a","s","h","b","o","a","r","d">>
KwAudit == <<"a","u","d","i","t">>
KwCommunication == <<"c","o","m","m","u","n","i","c","a","t","i","o","n">>

\* ['screen_view', 'user_engagement', 'session_start', 'app_update',
\*  'os_update', 'first_open']
SystemEventNames ==
    {EvScreenView, EvUserEngagement, EvSessionStart, EvAppUpdate, EvOsUpdate,
     EvFirstOpen}

\* const systemEvents = ['session_start', 'app_update', 'os_update', 'first_open'];
ExcludedEventNames == {EvSessionStart, EvAppUpdate, EvOsUpdate, EvFirstOpen}

RelatedKeywords == <<KwDocument, KwCourse, KwDashboard, KwAudit, KwCommunication>>

TopFeaturesLimit == 50

None == <<>>

Some(x) == <<x>>

\* A Map keyed by featureName is the sequence of its values in insertion
\* order.  Map.get: the position of the key, 0 when absent.
MapIndex(m, name) ==
    IF \E k \in 1..Len(m) : m[k].featureName = name
    THEN CHOOSE k \in 1..Len(m) : m[k].featureName = name
    ELSE 0

\* Map.set: a new key is appended, an existing key keeps its position
MapSet(m, entry) ==
    LET k == MapIndex(m, entry.featureName) IN
    IF k = 0 THEN Append(m, entry) ELSE [m EXCEPT ![k] = entry]

\* screen.screenClass && screen.screenClass !== '(not set)' && screen.screenClass !== '(other)'
IsFeatureScreen(screen) ==
    screen.screenClass # <<>> /\ screen.screenClass # NotSet /\ screen.screenClass # Other

ScreenFeature(screen) ==
    [featureName     |-> screen.screenClass,
     featureType     |-> "screen",
     usageCount      |-> screen.views,
     uniqueUsers     |-> screen.activeUsers,
     avgUsagePerUser |-> screen.viewsPerActiveUser,
     engagementTime  |-> Some(screen.avgEngagementTime),
     relatedScreens  |-> None]

\* screenViews.forEach(screen => { if (...) featureMap.set(...) })
RECURSIVE SeedScreens(_, _)
SeedScreens(m, screens) ==
    IF screens = <<>> THEN m
    ELSE IF Len(screens) = 1
    THEN (IF IsFeatureScreen(screens[1]) THEN MapSet(m, ScreenFeature(screens[1])) ELSE m)
    ELSE LET half  == Len(screens) \div 2
             first == SeedScreens(m, SubSeq(screens, 1, half))
         IN  IF Len(first) >= Len(m)
             THEN SeedScreens(first, SubSeq(screens, half + 1, Len(screens)))
             ELSE first

\* (mutation: the action keywords are tested before the menu_ prefix)
FeatureTypeOf_ActionFirst(name) ==
    IF Includes(name, KwLogin) \/ Includes(name, KwLogout) \/ Includes(name, KwSelect)
    THEN "action"
    ELSE IF StartsWith(name, MenuPrefix) THEN "menu"
    ELSE IF name \in SystemEventNames THEN "system"
    ELSE "event"

\* the categorisation of an event name
FeatureTypeOf(name) ==
    IF StartsWith(name, MenuPrefix) THEN "menu"
    ELSE IF Includes(name, KwLogin) \/ Includes(name, KwLogout) \/ Includes(name, KwSelect)
    THEN "action"
    ELSE IF name \in SystemEventNames THEN "system"
    ELSE "event"

\* (mutation: the users of the two sources are summed)
MergeEvent_SumUsers(existing, event) ==
    LET usage == Add(existing.usageCount, event.eventCount)
        users == Add(existing.uniqueUsers, event.totalUsers)
    IN  [existing EXCEPT !.usageCount = usage,
                         !.uniqueUsers = users,
                         !.avgUsagePerUser = Div(usage, OrOne(users))]

\* (mutation: the users of the event replace those of the entry)
MergeEvent_LastUsers(existing, event) ==
    LET usage == Add(existing.usageCount, event.eventCount)
        users == event.totalUsers
    IN  [existing EXCEPT !.usageCount = usage,
                         !.uniqueUsers = users,
                         !.avgUsagePerUser = Div(usage, OrOne(users))]

\* the update of an existing entry by an event
MergeEvent(existing, event) ==
    LET usage == Add(existing.usageCount, event.eventCount)
        users == MathMax(existing.uniqueUsers, event.totalUsers)
    IN  [existing EXCEPT !.usageCount = usage,
                         !.uniqueUsers = users,
                         !.avgUsagePerUser = Div(usage, OrOne(users))]

\* (mutation: the average of a new entry is computed from its count and users)
EventFeature_ComputedAverage(event) ==
    [featureName     |-> event.eventName,
     featureType     |-> FeatureTypeOf(event.eventName),
     usageCount      |-> event.eventCount,
     uniqueUsers     |-> event.totalUsers,
     avgUsagePerUser |-> Div(event.eventCount, OrOne(event.totalUsers)),
     engagementTime  |-> None,
     relatedScreens  |-> None]

EventFeature(event) ==
    [featureName     |-> event.eventName,
     featureType     |-> FeatureTypeOf(event.eventName),
     usageCount      |-> event.eventCount,
     uniqueUsers     |-> event.totalUsers,
     avgUsagePerUser |-> event.eventCountPerUser,
     engagementTime  |-> None,
     relatedScreens  |-> None]

\* (mutation: every event adds an entry of its own)
AddEvent_AlwaysNew(m, event) == Append(m, EventFeature(event))

\* the body of events.forEach in getFeatureUsageAnalysis
AddEvent(m, event) ==
    LET k == MapIndex(m, event.eventName) IN
    IF k # 0 THEN [m EXCEPT ![k] = MergeEvent(m[k], event)]
    ELSE Append(m, EventFeature(event))

RECURSIVE AddEvents(_, _)
AddEvents(m, evs) ==
    IF evs = <<>> THEN m
    ELSE IF Len(evs) = 1 THEN AddEvent(m, evs[1])
    ELSE LET half  == Len(evs) \div 2
             first == AddEvents(m, SubSeq(evs, 1, half))
         IN  IF Len(first) >= Len(m)
             THEN AddEvents(first, SubSeq(evs, half + 1, Len(evs)))
             ELSE first

\* (mutation: the keyword is looked for in the feature name only)
SharesKeyword_FeatureOnly(featureLower, screenName) ==
    \E k \in 1..Len(RelatedKeywords) : Includes(featureLower, RelatedKeywords[k])

\* the if / else-if chain on the five keywords
SharesKeyword(featureLower, screenName) ==
    \E k \in 1..Len(RelatedKeywords) :
        Includes(featureLower, RelatedKeywords[k]) /\ Includes(screenName, RelatedKeywords[k])

\* relatedScreens after screenViews.forEach
RECURSIVE MatchingScreens(_, _)
MatchingScreens(featureName, screens) ==
    IF screens = <<>> THEN <<>>
    ELSE IF Len(screens) = 1
    THEN (IF SharesKeyword(ToLowerCase(featureName), ToLowerCase(screens[1].screenClass))
          THEN <<screens[1].screenClass>> ELSE <<>>)
    ELSE LET half == Len(screens) \div 2 IN
         MatchingScreens(featureName, SubSeq(screens, 1, half))
         \o MatchingScreens(featureName, SubSeq(screens, half + 1, Len(screens)))

\* [...new Set(list)]: the first occurrence of each element, in order
RECURSIVE Dedupe(_)
Dedupe(list) ==
    IF list = <<>> THEN <<>>
    ELSE LET front == Dedupe(SubSeq(list, 1, Len(list) - 1))
             last  == list[Len(list)]
         IN  IF \E k \in 1..Len(front) : front[k] = last THEN front
             ELSE Append(front, last)

\* the body of featureMap.forEach (related screens of menu/action features)
WithRelatedScreens(feature, screens) ==
    IF feature.featureType \in {"menu", "action"}
    THEN LET related == MatchingScreens(feature.featureName, screens) IN
         IF Len(related) > 0
         THEN [feature EXCEPT !.relatedScreens = Some(Dedupe(related))]
         ELSE feature
    ELSE feature

\* (mutation: x is placed before the elements of equal usageCount)
InsertDesc_BeforeEqual(sorted, x) ==
    LET after == {k \in 1..Len(sorted) : ~Less(x.usageCount, sorted[k].usageCount)}
        at    == IF after = {} THEN Len(sorted) + 1
                 ELSE CHOOSE k \in after : \A j \in after : k <= j
    IN  SubSeq(sorted, 1, at - 1) \o <<x>> \o SubSeq(sorted, at, Len(sorted))

\* the position at which a stable descending sort places x in the sorted
\* list: before the first element that is smaller
InsertDesc(sorted, x) ==
    LET after == {k \in 1..Len(sorted) : Less(sorted[k].usageCount, x.usageCount)}
        at    == IF after = {} THEN Len(sorted) + 1
                 ELSE CHOOSE k \in after : \A j \in after : k <= j
    IN  SubSeq(sorted, 1, at - 1) \o <<x>> \o SubSeq(sorted, at, Len(sorted))

\* the elements of list inserted one after the other
RECURSIVE InsertAllDesc(_, _)
InsertAllDesc(sorted, list) ==
    IF list = <<>> THEN sorted
    ELSE IF Len(list) = 1 THEN InsertDesc(sorted, list[1])
    ELSE LET half  == Len(list) \div 2
             first == InsertAllDesc(sorted, SubSeq(list, 1, half))
         IN  IF Len(first) >= Len(sorted)
             THEN InsertAllDesc(first, SubSeq(list, half + 1, Len(list)))
             ELSE first

\* (mutation: the list is left in insertion order)
SortByUsageDesc_Unsorted(list) == list

\* list.sort((a, b) => b.usageCount - a.usageCount): Array.prototype.sort is
\* stable
SortByUsageDesc(list) == InsertAllDesc(<<>>, list)

getFeatureUsageAnalysis(evs, screens) ==
    LET merged == AddEvents(SeedScreens(<<>>, screens), evs)
        linked == [k \in 1..Len(merged) |-> WithRelatedScreens(merged[k], screens)]
    IN  SortByUsageDesc(linked)

ScreenStat(screen) ==
    [featureName     |-> screen.screenClass,
     usageCount      |-> screen.views,
     uniqueUsers     |-> screen.activeUsers,
     avgUsagePerUser |-> screen.viewsPerActiveUser,
     category        |-> "screen"]

RECURSIVE SeedScreenStats(_, _)
SeedScreenStats(m, screens) ==
    IF screens = <<>> THEN m
    ELSE IF Len(screens) = 1
    THEN (IF IsFeatureScreen(screens[1]) THEN MapSet(m, ScreenStat(screens[1])) ELSE m)
    ELSE LET half  == Len(screens) \div 2
             first == SeedScreenStats(m, SubSeq(screens, 1, half))
         IN  IF Len(first) >= Len(m)
             THEN SeedScreenStats(first, SubSeq(screens, half + 1, Len(screens)))
             ELSE first

CategoryOf(name) ==
    IF name = EvScreenView THEN "screen"
    ELSE IF name = EvUserEngagement THEN "engagement"
    ELSE IF StartsWith(name, MenuPrefix) THEN "event"
    ELSE "event"

EventStat(event) ==
    [featureName     |-> event.eventName,
     usageCount      |-> event.eventCount,
     uniqueUsers     |-> event.totalUsers,
     avgUsagePerUser |-> event.eventCountPerUser,
     category        |-> CategoryOf(event.eventName)]

\* the body of events.forEach in analyzeFeatureUsage
AddEventStat(m, event) ==
    IF event.eventName \in ExcludedEventNames THEN m
    ELSE LET k == MapIndex(m, event.eventName) IN
         IF k # 0 THEN [m EXCEPT ![k] = MergeEvent(m[k], event)]
         ELSE Append(m, EventStat(event))

RECURSIVE AddEventStats(_, _)
AddEventStats(m, evs) ==
    IF evs = <<>> THEN m
    ELSE IF Len(evs) = 1 THEN AddEventStat(m, evs[1])
    ELSE LET half  == Len(evs) \div 2
             first == AddEventStats(m, SubSeq(evs, 1, half))
         IN  IF Len(first) >= Len(m)
             THEN AddEventStats(first, SubSeq(evs, half + 1, Len(evs)))
             ELSE first

\* (mutation: the sorted list is returned whole)
analyzeFeatureUsage_Uncut(evs, screens) ==
    SortByUsageDesc(AddEventStats(SeedScreenStats(<<>>, screens), evs))

analyzeFeatureUsage(evs, screens) ==
    LET sorted == SortByUsageDesc(AddEventStats(SeedScreenStats(<<>>, screens), evs))
    IN  SubSeq(sorted, 1, Min(TopFeaturesLimit, Len(sorted)))

-----------------------------------------------------------------------------
(* Specification of the sectioned parser: parseCSV applied to the files     *)
(* whose lines come from ParseLinePool.                                     *)

L_Space == <<" ">>
L_IndentedComment == <<" ","#">> \o Marker30Days \o <<",","c">>
L_Boundary == <<"#"," ">> \o StartDateMarker
L_Header == <<"a",",">> \o Marker30Days
L_Row == <<"1",","," ","2">>
L_Plain == <<"x">>
L_StartDateRow == StartDateMarker \o <<",","3">>

ParseLinePool ==
    {L_Space, L_IndentedComment, L_Boundary, L_Header, L_Row, L_Plain,
     L_StartDateRow}

SeqsUpTo(S, n) == UNION {[1..k -> S] : k \in 0..n}

ParseFiles == {Join(ls, NL) : ls \in SeqsUpTo(ParseLinePool, MaxLines)}

NoScan == [headerIndex |-> 0, dataStartIndex |-> 0, dataEndIndex |-> 0]

\* no aggregation is part of the run
NoFeatures ==
    events = <<>> /\ screenViews = <<>> /\ topFeatures = <<>> /\ features = <<>>

\* fs.existsSync(this.csvDir) is false
NoFolder == [exists |-> FALSE, entries |-> <<>>]

NoDate == [valid |-> FALSE, y |-> 0, m |-> 0, d |-> 0]

NoResponse == [status |-> 0]

\* findCSVFile's null
Null == <<>>

NoRange == [startDate |-> <<>>, endDate |-> <<>>]

\* no report is part of the run
NoReport == folderName = <<>> /\ summary = <<>> /\ csvData = <<>>

\* no page is part of the run
NoPage ==
    /\ searchParams = <<>>
    /\ selectedFolder = <<>>
    /\ data = <<>>
    /\ loading = FALSE
    /\ error = <<>>
    /\ folders = <<>>
    /\ navigation = <<>>
    /\ calls = <<>>
    /\ foldersPending = 0

\* no repository is constructed from a query parameter in the run
NoPath == query = <<>> /\ csvDir = <<>>

\* no request is part of the run
NoRequest ==
    /\ folder = NoFolder
    /\ today = NoDate
    /\ pattern = <<>>
    /\ located = Null
    /\ dateRange = NoRange
    /\ response = NoResponse

InitParse ==
    /\ pc = "parse"
    /\ content \in ParseFiles
    /\ sectionHeader \in {<<>>, Marker30Days}
    /\ scan = NoScan
    /\ records = <<>>
    /\ loader = "none"
    /\ result = NoResult
    /\ NoFeatures
    /\ NoRequest
    /\ NoReport
    /\ NoPage
    /\ NoPath

ParseCSV ==
    /\ pc = "parse"
    /\ scan' = ScanSection(Split(content, "\n"), sectionHeader)
    /\ records' = parseCSV(content, sectionHeader)
    /\ pc' = "parsed"
    /\ UNCHANGED <<content, sectionHeader, loadVars, featureVars, requestVars, reportVars, pageVars, pathVars>>

NextParse == ParseCSV

SpecParse == InitParse /\ [][NextParse]_vars

-----------------------------------------------------------------------------
(* Properties of parseCSV *)

FileLines == Split(content, "\n")

IsBlank(raw) == \A k \in 1..Len(raw) : raw[k] \in Whitespace

IsComment(raw) ==
    \E k \in 1..Len(raw) :
        raw[k] = "#" /\ \A j \in 1..(k - 1) : raw[j] \in Whitespace

\* the elements of a finite set of integers in increasing order
Ascending(S) ==
    [k \in 1..Cardinality(S) |->
        CHOOSE i \in S : Cardinality({j \in S : j < i}) = k - 1]

\* lines that may be chosen as the header
HeaderCandidates ==
    {i \in 1..Len(FileLines) :
        /\ ~IsBlank(FileLines[i])
        /\ ~IsComment(FileLines[i])
        /\ IF sectionHeader # <<>>
           THEN Includes(FileLines[i], sectionHeader)
           ELSE "," \in {FileLines[i][k] : k \in 1..Len(FileLines[i])}}

\* comment lines after the header that contain "Start date:"
BoundariesAfter(h) ==
    {j \in (h + 1)..Len(FileLines) :
        IsComment(FileLines[j]) /\ Includes(FileLines[j], StartDateMarker)}

SectionEnd(h) ==
    IF BoundariesAfter(h) = {} THEN Len(FileLines) + 1
    ELSE CHOOSE j \in BoundariesAfter(h) : \A k \in BoundariesAfter(h) : j <= k

SectionRows(h) ==
    {i \in (h + 1)..(SectionEnd(h) - 1) :
        ~IsBlank(FileLines[i]) /\ ~IsComment(FileLines[i])}

\* C1: the records of a section are those of the non-blank, non-comment
\* lines strictly after the header line and strictly before the first later
\* comment line that contains "Start date:" (end of file when there is
\* none), one record per such line, in file order; the boundary line and the
\* lines after it contribute nothing.
C1_SectionExtent ==
    (pc = "parsed" /\ scan.headerIndex # 0) =>
        LET rows == Ascending(SectionRows(scan.headerIndex))
            cols == Cells(FileLines[scan.headerIndex])
        IN  records = [k \in 1..Len(rows) |->
                          StructuredRecord(cols, FileLines[rows[k]])]

\* a section with a record that is cut by a boundary, with a data line after
\* the boundary
C1_Witness ==
    /\ pc = "parsed"
    /\ scan.headerIndex # 0
    /\ records # <<>>
    /\ scan.dataEndIndex <= Len(FileLines)
    /\ \E i \in (scan.dataEndIndex + 1)..Len(FileLines) :
           ~IsBlank(FileLines[i]) /\ ~IsComment(FileLines[i])

\* C2: the header is the first line that is neither blank nor a comment and
\* that contains the section marker when one is given, a comma when none is
\* given; when there is no such line no header is found.
C2_HeaderChoice ==
    pc = "parsed" =>
        IF HeaderCandidates = {} THEN scan.headerIndex = 0
        ELSE /\ scan.headerIndex \in HeaderCandidates
             /\ \A i \in HeaderCandidates : scan.headerIndex <= i

\* a comment line that contains the marker precedes the chosen header
C2_Witness ==
    /\ pc = "parsed"
    /\ sectionHeader # <<>>
    /\ scan.headerIndex > 1
    /\ \E i \in 1..(scan.headerIndex - 1) :
           IsComment(FileLines[i]) /\ Includes(FileLines[i], sectionHeader)

-----------------------------------------------------------------------------
(* Specification of the loaders: each loader applied to the files built     *)
(* from the lines below.                                                    *)

\* # Start date: 20240101
OvStart0101 ==
    <<"#"," ","S","t","a","r","t"," ","d","a","t","e",":"," ","2","0","2","4","0","1","0","1">>

\* # Start date: 20231230
OvStart1230 ==
    <<"#"," ","S","t","a","r","t"," ","d","a","t","e",":"," ","2","0","2","3","1","2","3","0">>

\* # Start date: 20240228
OvStart0228 ==
    <<"#"," ","S","t","a","r","t"," ","d","a","t","e",":"," ","2","0","2","4","0","2","2","8">>

\* # Start date: unknown
OvStartNone ==
    <<"#"," ","S","t","a","r","t"," ","d","a","t","e",":"," ","u","n","k","n","o","w","n">>

\* # End date: 20240103
OvEnd0103 ==
    <<"#"," ","E","n","d"," ","d","a","t","e",":"," ","2","0","2","4","0","1","0","3">>

\* # End date: 20240101
OvEnd0101 ==
    <<"#"," ","E","n","d"," ","d","a","t","e",":"," ","2","0","2","4","0","1","0","1">>

\* # End date: 20240301
OvEnd0301 ==
    <<"#"," ","E","n","d"," ","d","a","t","e",":"," ","2","0","2","4","0","3","0","1">>

\* # exported
OvEndNone ==
    <<"#"," ","e","x","p","o","r","t","e","d">>

\* Nth day,30 days,7 days,1 day
OvHeader ==
    <<"N","t","h"," ","d","a","y",",","3","0"," ","d","a","y","s",",","7"," ","d","a","y","s",",","1"," ","d","a","y">>

\* 1,10,5,2
OvRow1 ==
    <<"1",",","1","0",",","5",",","2">>

\* 2,12,6,3
OvRow2 ==
    <<"2",",","1","2",",","6",",","3">>

\* 3,15,7,1
OvRow3 ==
    <<"3",",","1","5",",","7",",","1">>

\* 4,abc,,x
OvRowBad ==
    <<"4",",","a","b","c",",",",","x">>

\* ,3,1,1
OvRowNoDay ==
    <<",","3",",","1",",","1">>

\* Event name,Event count,Total users,Event count per active user,Total revenue
EvHeader ==
    <<"E","v","e","n","t"," ","n","a","m","e",",","E","v","e","n","t"," ","c","o","u","n","t",",","T","o","t","a","l"," ","u","s","e","r","s",",","E","v","e","n","t"," ","c","o","u","n","t"," ","p","e","r"," ","a","c","t","i","v","e"," ","u","s","e","r",",","T","o","t","a","l"," ","r","e","v","e","n","u","e">>

\* screen_view,500,300,1.67,0
EvRowScreenView ==
    <<"s","c","r","e","e","n","_","v","i","e","w",",","5","0","0",",","3","0","0",",","1",".","6","7",",","0">>

\* menu_settings,20,15,1.33,0
EvRowMenu ==
    <<"m","e","n","u","_","s","e","t","t","i","n","g","s",",","2","0",",","1","5",",","1",".","3","3",",","0">>

\* (other),7,x,,
EvRowOther ==
    <<"(","o","t","h","e","r",")",",","7",",","x",",",",">>

\* ,5,1,1,0
EvRowNoName ==
    <<",","5",",","1",",","1",",","0">>

\* login,abc,2
EvRowShort ==
    <<"l","o","g","i","n",",","a","b","c",",","2">>

\* Page title and screen class,Views,Active users,Views per active user,Average engagement time per active user,Event count,Key events,Total revenue
ScHeader ==
    <<"P","a","g","e"," ","t","i","t","l","e"," ","a","n","d"," ","s","c","r","e","e","n"," ","c","l","a","s","s",",","V","i","e","w","s",",","A","c","t","i","v","e"," ","u","s","e","r","s",",","V","i","e","w","s"," ","p","e","r"," ","a","c","t","i","v","e"," ","u","s","e","r",",","A","v","e","r","a","g","e"," ","e","n","g","a","g","e","m","e","n","t"," ","t","i","m","e"," ","p","e","r"," ","a","c","t","i","v","e"," ","u","s","e","r",",","E","v","e","n","t"," ","c","o","u","n","t",",","K","e","y"," ","e","v","e","n","t","s",",","T","o","t","a","l"," ","r","e","v","e","n","u","e">>

\* HomeScreen,500,300,1.67,45.2,500,0,0
ScRowHome ==
    <<"H","o","m","e","S","c","r","e","e","n",",","5","0","0",",","3","0","0",",","1",".","6","7",",","4","5",".","2",",","5","0","0",",","0",",","0">>

\* (not set),9,,x,1.5,,2
ScRowNotSet ==
    <<"(","n","o","t"," ","s","e","t",")",",","9",",",",","x",",","1",".","5",",",",","2">>

\* Doc,,1,1,1,1,1,1
ScRowNoViews ==
    <<"D","o","c",",",",","1",",","1",",","1",",","1",",","1",",","1">>

\* Audit,n/a,4,2.5,-,3,0,0.5
ScRowBad ==
    <<"A","u","d","i","t",",","n","/","a",",","4",",","2",".","5",",","-",",","3",",","0",",","0",".","5">>

OvStartLines == {OvStart0101, OvStart1230, OvStart0228, OvStartNone}
OvEndLines == {OvEnd0103, OvEnd0101, OvEnd0301, OvEndNone}
OvRowPool == {OvRow1, OvRow2, OvRow3, OvRowBad, OvRowNoDay}
EvRowPool == {EvRowScreenView, EvRowMenu, EvRowOther, EvRowNoName, EvRowShort}
ScRowPool == {ScRowHome, ScRowNotSet, ScRowNoViews, ScRowBad}

OverviewFiles ==
    {Join(<<st, en, OvHeader>> \o rows, NL) :
        st \in OvStartLines, en \in OvEndLines, rows \in SeqsUpTo(OvRowPool, MaxRows)}

EventFiles == {Join(<<EvHeader>> \o rows, NL) : rows \in SeqsUpTo(EvRowPool, MaxRows)}

ScreenFiles == {Join(<<ScHeader>> \o rows, NL) : rows \in SeqsUpTo(ScRowPool, MaxRows)}

InitLoad ==
    /\ pc = "load"
    /\ \/ loader = "overview" /\ content \in OverviewFiles
       \/ loader = "screens" /\ content \in ScreenFiles
       \/ loader = "events" /\ content \in EventFiles
    /\ sectionHeader = <<>>
    /\ scan = NoScan
    /\ records = <<>>
    /\ result = NoResult
    /\ NoFeatures
    /\ NoRequest
    /\ NoReport
    /\ NoPage
    /\ NoPath

LoadOverviewData ==
    /\ pc = "load" /\ loader = "overview"
    /\ result' \in loadOverviewData(content)
    /\ sectionHeader' = Marker30Days
    /\ scan' = ScanSection(Split(content, "\n"), Marker30Days)
    /\ records' = parseCSV(content, Marker30Days)
    /\ pc' = "loaded"
    /\ UNCHANGED <<content, loader, featureVars, requestVars, reportVars, pageVars, pathVars>>

LoadScreenViewsData ==
    /\ pc = "load" /\ loader = "screens"
    /\ result' = loadScreenViewsData(content)
    /\ sectionHeader' = ColScreenClass
    /\ scan' = ScanSection(Split(content, "\n"), ColScreenClass)
    /\ records' = parseCSV(content, ColScreenClass)
    /\ pc' = "loaded"
    /\ UNCHANGED <<content, loader, featureVars, requestVars, reportVars, pageVars, pathVars>>

LoadEventsData ==
    /\ pc = "load" /\ loader = "events"
    /\ result' = loadEventsData(content)
    /\ sectionHeader' = ColEventName
    /\ scan' = ScanSection(Split(content, "\n"), ColEventName)
    /\ records' = parseCSV(content, ColEventName)
    /\ pc' = "loaded"
    /\ UNCHANGED <<content, loader, featureVars, requestVars, reportVars, pageVars, pathVars>>

NextLoad == LoadOverviewData \/ LoadScreenViewsData \/ LoadEventsData

SpecLoad == InitLoad /\ [][NextLoad]_vars

-----------------------------------------------------------------------------
(* Properties of the loaders *)

NumericFields ==
    IF loader = "overview"
    THEN {"activeUsers30Days", "activeUsers7Days", "activeUsers1Day"}
    ELSE IF loader = "screens"
    THEN {"views", "activeUsers", "viewsPerActiveUser", "avgEngagementTime",
          "eventCount", "keyEvents", "totalRevenue"}
    ELSE {"eventCount", "totalUsers", "eventCountPerUser", "totalRevenue"}

\* C3: in every record a loader returns, every numeric field is a number
\* (a missing, empty or non-numeric cell gives 0, never NaN).
C3_CoercionNeverNaN ==
    (pc = "loaded" /\ result.error = "none") =>
        \A i \in 1..Len(result.rows) : \A f \in NumericFields :
            ~result.rows[i][f].nan

FileStart == parseISO(IsoText(MatchDate(content, StartDateLabel)))

FileEnd == parseISO(IsoText(MatchDate(content, EndDateLabel)))

HasValidRange ==
    /\ MatchDate(content, StartDateLabel) # <<>>
    /\ MatchDate(content, EndDateLabel) # <<>>
    /\ FileStart.valid /\ FileEnd.valid
    /\ ~DateBefore(FileEnd, FileStart)

RECURSIVE AddDays(_, _)
AddDays(t, n) == IF n = 0 THEN t ELSE AddDays(NextDay(t), n - 1)

RECURSIVE DaysBetween(_, _)
DaysBetween(a, b) == IF ~DateBefore(a, b) THEN 0 ELSE 1 + DaysBetween(NextDay(a), b)

\* C4: for a valid range [start,end] loadOverviewData returns at most
\* end-start+1 records.
C4_AtMostOneRecordPerDay ==
    (pc = "loaded" /\ loader = "overview" /\ HasValidRange) =>
        /\ result.error = "none"
        /\ Len(result.rows) <= DaysBetween(FileStart, FileEnd) + 1

\* C5: the i-th returned record (0-based) carries the date start+i days, so
\* the dates are strictly increasing and all lie in [start,end], and it
\* carries the values of its row's "30 days", "7 days" and "1 day" cells.
C5_PositionalDays ==
    (pc = "loaded" /\ loader = "overview" /\ HasValidRange) =>
        LET kept == KeepWithBoth(parseCSV(content, Marker30Days), ColNthDay, Col30Days) IN
        /\ result.error = "none"
        /\ Len(result.rows) = Len(kept)
        /\ \A i \in 1..Len(result.rows) :
            /\ result.rows[i].date = FormatDate(AddDays(FileStart, i - 1))
            /\ ~DateBefore(FileEnd, AddDays(FileStart, i - 1))
            /\ result.rows[i].activeUsers30Days = parseInt(Get(kept[i], Col30Days))
            /\ result.rows[i].activeUsers7Days = parseInt(OrElse(Get(kept[i], Col7Days), Zero))
            /\ result.rows[i].activeUsers1Day = parseInt(OrElse(Get(kept[i], Col1Day), Zero))

\* the scenario of C5: start 20240101, end 20240103, rows (1,10,5,2)
\* (2,12,6,3) (3,15,7,1)
C5_Scenario ==
    (pc = "loaded" /\ content = Join(<<OvStart0101, OvEnd0103, OvHeader, OvRow1, OvRow2, OvRow3>>, NL)) =>
        result = Returned(<<
            [date |-> <<"2","0","2","4","-","0","1","-","0","1">>,
             activeUsers30Days |-> Number(10, 1), activeUsers7Days |-> Number(5, 1),
             activeUsers1Day |-> Number(2, 1)],
            [date |-> <<"2","0","2","4","-","0","1","-","0","2">>,
             activeUsers30Days |-> Number(12, 1), activeUsers7Days |-> Number(6, 1),
             activeUsers1Day |-> Number(3, 1)],
            [date |-> <<"2","0","2","4","-","0","1","-","0","3">>,
             activeUsers30Days |-> Number(15, 1), activeUsers7Days |-> Number(7, 1),
             activeUsers1Day |-> Number(1, 1)]>>)

-----------------------------------------------------------------------------
(* Specification of the feature aggregation: analyzeFeatureUsage and        *)
(* getFeatureUsageAnalysis applied to the rows the loaders return for the   *)
(* files built from the lines below (well-formed rows, non-negative counts).*)

\* menu_login,20,0,0,0
FeEvMenuLogin ==
    <<"m","e","n","u","_","l","o","g","i","n",",","2","0",",","0",",","0",",","0">>

\* user_logout,7,7,1,0
FeEvLogout ==
    <<"u","s","e","r","_","l","o","g","o","u","t",",","7",",","7",",","1",",","0">>

\* first_open,3,3,1,0
FeEvFirstOpen ==
    <<"f","i","r","s","t","_","o","p","e","n",",","3",",","3",",","1",",","0">>

\* DocumentView,5,400,0.01,0
FeEvDocView ==
    <<"D","o","c","u","m","e","n","t","V","i","e","w",",","5",",","4","0","0",",","0",".","0","1",",","0">>

\* (other),7,1,7,0
FeEvOther ==
    <<"(","o","t","h","e","r",")",",","7",",","1",",","7",",","0">>

\* screen_view,500,300,1.67,0
FeEvScreenView ==
    <<"s","c","r","e","e","n","_","v","i","e","w",",","5","0","0",",","3","0","0",",","1",".","6","7",",","0">>

\* DocumentView,4,30,0.13,0
FeEvDocViewAgain ==
    <<"D","o","c","u","m","e","n","t","V","i","e","w",",","4",",","3","0",",","0",".","1","3",",","0">>

\* menu_document,12,6,2,0
FeEvMenuDocument ==
    <<"m","e","n","u","_","d","o","c","u","m","e","n","t",",","1","2",",","6",",","2",",","0">>

\* HomeScreen,500,300,1.67,45.2,500,0,0
FeScHome ==
    <<"H","o","m","e","S","c","r","e","e","n",",","5","0","0",",","3","0","0",",","1",".","6","7",",","4","5",".","2",",","5","0","0",",","0",",","0">>

\* (not set),9,3,3,1.5,9,0,0
FeScNotSet ==
    <<"(","n","o","t"," ","s","e","t",")",",","9",",","3",",","3",",","1",".","5",",","9",",","0",",","0">>

\* DocumentView,12,5,2.4,10.5,20,0,0
FeScDocument ==
    <<"D","o","c","u","m","e","n","t","V","i","e","w",",","1","2",",","5",",","2",".","4",",","1","0",".","5",",","2","0",",","0",",","0">>

\* DocumentView,40,2,20,3,40,0,0
FeScDocumentAgain ==
    <<"D","o","c","u","m","e","n","t","V","i","e","w",",","4","0",",","2",",","2","0",",","3",",","4","0",",","0",",","0">>

FeEventRowPool ==
    {FeEvScreenView, FeEvMenuLogin, FeEvLogout, FeEvFirstOpen, FeEvDocView,
     FeEvDocViewAgain, FeEvOther, FeEvMenuDocument}

FeScreenRowPool == {FeScHome, FeScNotSet, FeScDocument, FeScDocumentAgain}

FeEventFiles ==
    {Join(<<EvHeader>> \o rows, NL) : rows \in SeqsUpTo(FeEventRowPool, MaxEvents)}

FeScreenFiles ==
    {Join(<<ScHeader>> \o rows, NL) : rows \in SeqsUpTo(FeScreenRowPool, MaxScreens)}

\* const events = this.repository.loadEventsData();
FeEvents == {loadEventsData(f).rows : f \in FeEventFiles}

\* const screenViews = this.repository.loadScreenViewsData();
FeScreenViews == {loadScreenViewsData(f).rows : f \in FeScreenFiles}

InitFeature ==
    /\ pc = "summary"
    /\ content = <<>>
    /\ sectionHeader = <<>>
    /\ scan = NoScan
    /\ records = <<>>
    /\ loader = "none"
    /\ result = NoResult
    /\ events \in FeEvents
    /\ screenViews \in FeScreenViews
    /\ topFeatures = <<>>
    /\ features = <<>>
    /\ NoRequest
    /\ NoReport
    /\ NoPage
    /\ NoPath

\* const topFeatures = this.analyzeFeatureUsage(events, screenViews);
AnalyzeFeatureUsage ==
    /\ pc = "summary"
    /\ topFeatures' = analyzeFeatureUsage(events, screenViews)
    /\ pc' = "analyzed"
    /\ UNCHANGED <<parseVars, loadVars, events, screenViews, features, requestVars, reportVars, pageVars, pathVars>>

\* const featureUsageDetails = this.repository.getFeatureUsageAnalysis().features;
GetFeatureUsageAnalysis ==
    /\ pc = "analyzed"
    /\ features' = getFeatureUsageAnalysis(events, screenViews)
    /\ pc' = "done"
    /\ UNCHANGED <<parseVars, loadVars, events, screenViews, topFeatures, requestVars, reportVars, pageVars, pathVars>>

NextFeature == AnalyzeFeatureUsage \/ GetFeatureUsageAnalysis

SpecFeature == InitFeature /\ [][NextFeature]_vars

-----------------------------------------------------------------------------
(* Properties of the feature aggregation *)

\* C6: no entry of featureUsageDetails or of topFeatures is named
\* "(not set)" or "(other)", whether the name comes from a screen or from an
\* event.
C6_NoSentinelFeature ==
    /\ \A k \in 1..Len(features) : features[k].featureName \notin {NotSet, Other}
    /\ \A k \in 1..Len(topFeatures) : topFeatures[k].featureName \notin {NotSet, Other}

One == Number(1, 1)

\* the positions of the events named n
EventsNamed(n) == {i \in 1..Len(events) : events[i].eventName = n}

\* the positions of the screens that seed the feature n
SeedsNamed(n) ==
    {j \in 1..Len(screenViews) :
        screenViews[j].screenClass = n /\ n \notin {<<>>, NotSet, Other}}

\* the screen whose values the seeded entry carries: the last one of that class
SeedOf(n) == screenViews[CHOOSE j \in SeedsNamed(n) : \A i \in SeedsNamed(n) : i <= j]

\* the sum of the eventCount of the events named n among the first k events
RECURSIVE EventCountSumTo(_, _)
EventCountSumTo(n, k) ==
    IF k = 0 THEN Number(0, 1)
    ELSE IF events[k].eventName = n
    THEN Add(EventCountSumTo(n, k - 1), events[k].eventCount)
    ELSE EventCountSumTo(n, k - 1)

EventCountSum(n) == EventCountSumTo(n, Len(events))

\* the greatest of a non-empty finite set of numbers
Greatest(S) == CHOOSE m \in S : \A c \in S : ~Less(m, c)

\* C7: an event whose name is already in the feature map updates that entry
\* in place.  For a screen-seeded name with events: usageCount = views + the
\* events' eventCount, uniqueUsers = the maximum of activeUsers and the
\* events' totalUsers, avgUsagePerUser = usageCount / max(uniqueUsers, 1),
\* featureType stays "screen".  For a name carried by several events only:
\* the same with the first event in place of the screen.  No name has a
\* second entry.
C7_MergeInPlace ==
    pc = "done" =>
        \A k \in 1..Len(features) :
            LET f == features[k]
                n == f.featureName
                users == {events[i].totalUsers : i \in EventsNamed(n)}
            IN  /\ \A j \in 1..Len(features) : features[j].featureName = n => j = k
                /\ (SeedsNamed(n) # {} /\ EventsNamed(n) # {}) =>
                      /\ f.featureType = "screen"
                      /\ f.usageCount = Add(SeedOf(n).views, EventCountSum(n))
                      /\ f.uniqueUsers = Greatest(users \cup {SeedOf(n).activeUsers})
                      /\ f.avgUsagePerUser = Div(f.usageCount, MathMax(f.uniqueUsers, One))
                /\ (SeedsNamed(n) = {} /\ Cardinality(EventsNamed(n)) >= 2) =>
                      /\ f.usageCount = EventCountSum(n)
                      /\ f.uniqueUsers = Greatest(users)
                      /\ f.avgUsagePerUser = Div(f.usageCount, MathMax(f.uniqueUsers, One))

\* an event has merged into a screen-seeded entry and raised its users
C7_Witness ==
    /\ pc = "done"
    /\ \E k \in 1..Len(features) :
        /\ SeedsNamed(features[k].featureName) # {}
        /\ EventsNamed(features[k].featureName) # {}
        /\ Less(SeedOf(features[k].featureName).activeUsers, features[k].uniqueUsers)

ExpectedFeatureType(n) ==
    IF Len(n) >= 5 /\ SubSeq(n, 1, 5) = MenuPrefix THEN "menu"
    ELSE IF \E kw \in {KwLogin, KwLogout, KwSelect} : Includes(n, kw) THEN "action"
    ELSE IF n \in {EvScreenView, EvUserEngagement, EvSessionStart, EvAppUpdate,
                   EvOsUpdate, EvFirstOpen} THEN "system"
    ELSE "event"

\* C8: an event whose name is not the name of a screen-seeded feature gets
\* its featureType by the precedence menu_ prefix, then login / logout /
\* select_ substring, then the six system names, then event.
C8_TypePrecedence ==
    pc = "done" =>
        \A i \in 1..Len(events) :
            SeedsNamed(events[i].eventName) = {} =>
                \E k \in 1..Len(features) :
                    /\ features[k].featureName = events[i].eventName
                    /\ features[k].featureType = ExpectedFeatureType(events[i].eventName)

MenuLoginName == <<"m","e","n","u","_","l","o","g","i","n">>

\* "menu_login" has been classified, as menu
C8_Witness ==
    /\ pc = "done"
    /\ \E k \in 1..Len(features) :
        features[k].featureName = MenuLoginName /\ features[k].featureType = "menu"

\* the rearrangements of a sequence
Rearrangements(list) ==
    {[i \in 1..Len(list) |-> list[f[i]]] :
        f \in {g \in [1..Len(list) -> 1..Len(list)] :
                  \A a, b \in 1..Len(list) : g[a] = g[b] => a = b}}

Elements(list) == {list[k] : k \in 1..Len(list)}

\* C9: for fixed screens the set of feature entries is the same for every
\* permutation of the event list, repeated event names included.
C9_SameEntriesUnderPermutation ==
    pc = "done" =>
        \A evs \in Rearrangements(events) :
            Elements(getFeatureUsageAnalysis(evs, screenViews)) = Elements(features)

\* two events of the same name and different values have been merged
C9_Witness ==
    /\ pc = "done"
    /\ \E i, j \in 1..Len(events) :
        /\ i # j
        /\ events[i].eventName = events[j].eventName
        /\ events[i] # events[j]

Names(list) == [k \in 1..Len(list) |-> list[k].featureName]

\* C10 as stated: for fixed screens every permutation of the event list
\* gives the features in the same order.
C10_SameOrderUnderPermutation ==
    pc = "done" =>
        \A evs \in Rearrangements(events) :
            Names(getFeatureUsageAnalysis(evs, screenViews)) = Names(features)

\* C10 amended: for every permutation of the event list the list has the
\* same usageCount at every position, and a feature whose usageCount no
\* other feature has keeps its position; only features of equal usageCount
\* can change places.
C10_SameOrderUpToTies ==
    pc = "done" =>
        \A evs \in Rearrangements(events) :
            LET other == getFeatureUsageAnalysis(evs, screenViews) IN
            /\ Len(other) = Len(features)
            /\ \A k \in 1..Len(features) :
                /\ other[k].usageCount = features[k].usageCount
                /\ (\A j \in 1..Len(features) :
                        features[j].usageCount = features[k].usageCount => j = k)
                   => other[k] = features[k]

\* a permutation of the events moves a feature, and the list has features of
\* different usageCount
C10_Witness ==
    /\ pc = "done"
    /\ \E evs \in Rearrangements(events) :
        Names(getFeatureUsageAnalysis(evs, screenViews)) # Names(features)
    /\ \E j, k \in 1..Len(features) : features[j].usageCount # features[k].usageCount

\* the rank of the name n in discovery order: the position of its first
\* seeding screen, or, past all screens, that of its first event
FirstSeen(n) ==
    IF SeedsNamed(n) # {}
    THEN CHOOSE j \in SeedsNamed(n) : \A i \in SeedsNamed(n) : j <= i
    ELSE Len(screenViews) + (CHOOSE j \in EventsNamed(n) : \A i \in EventsNamed(n) : j <= i)

\* C11: the features are in non-increasing order of usageCount, and features
\* of equal usageCount are in discovery order (screens in file order, then
\* events in the order their name first appeared).
C11_SortedTiesInDiscoveryOrder ==
    pc = "done" =>
        \A j, k \in 1..Len(features) :
            j < k =>
                /\ ~Less(features[j].usageCount, features[k].usageCount)
                /\ features[j].usageCount = features[k].usageCount
                      => FirstSeen(features[j].featureName) < FirstSeen(features[k].featureName)

\* a screen and an event tie on usageCount, next to a feature of another
\* usageCount
C11_Witness ==
    /\ pc = "done"
    /\ \E j, k \in 1..Len(features) :
        /\ j < k
        /\ features[j].usageCount = features[k].usageCount
        /\ features[j].featureType = "screen"
        /\ features[k].featureType # "screen"
    /\ \E j, k \in 1..Len(features) : features[j].usageCount # features[k].usageCount

\* the positions of the screens whose lowercased class shares a keyword with
\* the lowercased name n
KeywordHits(n) ==
    {j \in 1..Len(screenViews) :
        \E w \in {KwDocument, KwCourse, KwDashboard, KwAudit, KwCommunication} :
            /\ Includes(ToLowerCase(screenViews[j].screenClass), w)
            /\ Includes(ToLowerCase(n), w)}

\* of these, the first position of each screen class
FirstKeywordHits(n) ==
    {j \in KeywordHits(n) :
        \A i \in KeywordHits(n) :
            screenViews[i].screenClass = screenViews[j].screenClass => j <= i}

\* the classes at these positions, in file order
ExpectedRelatedScreens(n) ==
    LET hits == FirstKeywordHits(n)
        order == CHOOSE o \in [1..Cardinality(hits) -> hits] :
                     \A a, b \in 1..Cardinality(hits) : a < b => o[a] < o[b]
    IN  [k \in 1..Cardinality(hits) |-> screenViews[order[k]].screenClass]

\* C12: a feature carries relatedScreens only if its type is menu or action
\* and some screen shares a keyword with it; the field is then the
\* duplicate-free list of those screen classes, and is absent otherwise.
C12_RelatedScreens ==
    pc = "done" =>
        \A k \in 1..Len(features) :
            LET f == features[k] IN
            IF f.featureType \in {"menu", "action"} /\ KeywordHits(f.featureName) # {}
            THEN f.relatedScreens = Some(ExpectedRelatedScreens(f.featureName))
            ELSE f.relatedScreens = None

\* a menu feature carries a related screen that matched twice, next to a
\* menu or action feature without related screens
C12_Witness ==
    /\ pc = "done"
    /\ \E k \in 1..Len(features) :
        /\ features[k].relatedScreens # None
        /\ Cardinality(KeywordHits(features[k].featureName))
              > Len(features[k].relatedScreens[1])
    /\ \E k \in 1..Len(features) :
        /\ features[k].featureType \in {"menu", "action"}
        /\ features[k].relatedScreens = None

-----------------------------------------------------------------------------
(* The data folder: findCSVFile, the loaders on a folder, the date range,  *)
(* getDashboardSummary and the analytics route                             *)

DotCsv == <<".","c","s","v">>

PatternOverview == <<"F","i","r","e","b","a","s","e","_","o","v","e","r","v","i","e","w",".","c","s","v">>
PatternEvents1 == <<"E","v","e","n","t","s","_","E","v","e","n","t","_","n","a","m","e","1",".","c","s","v">>
PatternEvents == <<"E","v","e","n","t","s","_","E","v","e","n","t","_","n","a","m","e",".","c","s","v">>
PatternScreens1 == <<"P","a","g","e","s","_","a","n","d","_","s","c","r","e","e","n","s","_","P","a","g","e","_","t","i","t","l","e","_","a","n","d","_","s","c","r","e","e","n","_","c","l","a","s","s","1",".","c","s","v">>
PatternScreens == <<"P","a","g","e","s","_","a","n","d","_","s","c","r","e","e","n","s","_","P","a","g","e","_","t","i","t","l","e","_","a","n","d","_","s","c","r","e","e","n","_","c","l","a","s","s",".","c","s","v">>

\* fs.readdirSync(this.csvDir)
FileNames(dir) == [k \in 1..Len(dir.entries) |-> dir.entries[k].name]

\* fs.readFileSync(filePath, 'utf-8') of an entry of the folder
ReadFile(dir, name) ==
    dir.entries[CHOOSE k \in 1..Len(dir.entries) : dir.entries[k].name = name].text

\* s.replace(sub, ''): the leftmost occurrence of sub is removed
RemoveFirst(s, sub) ==
    LET hits == {i \in 1..(Len(s) - Len(sub) + 1) : SubSeq(s, i, i + Len(sub) - 1) = sub}
    IN  IF hits = {} THEN s
        ELSE LET i == CHOOSE h \in hits : \A g \in hits : h <= g
             IN  SubSeq(s, 1, i - 1) \o SubSeq(s, i + Len(sub), Len(s))

\* the callback of files.find
MatchesPattern(file, basePattern) ==
    LET fileName     == ToLowerCase(file)
        patternLower == ToLowerCase(basePattern)
    IN  StartsWith(fileName, patternLower) /\ EndsWith(fileName, DotCsv)

\* (mutation: the names are compared without lowercasing)
findCSVFile_CaseSensitive(dir, pat) ==
    IF ~dir.exists THEN Null
    ELSE LET files == FileNames(dir) IN
         IF \E k \in 1..Len(files) : files[k] = pat THEN pat
         ELSE LET basePattern == RemoveFirst(pat, DotCsv)
                  matching == {k \in 1..Len(files) :
                                  /\ StartsWith(files[k], basePattern)
                                  /\ EndsWith(files[k], DotCsv)}
              IN  IF matching = {} THEN Null
                  ELSE files[CHOOSE k \in matching : \A j \in matching : k <= j]

\* the entry findCSVFile returns (path.join(this.csvDir, entry)), or Null
findCSVFile(dir, pat) ==
    IF ~dir.exists THEN Null
    ELSE LET files == FileNames(dir) IN
         IF \E k \in 1..Len(files) : files[k] = pat THEN pat
         ELSE LET basePattern == RemoveFirst(pat, DotCsv)
                  matching == {k \in 1..Len(files) : MatchesPattern(files[k], basePattern)}
              IN  IF matching = {} THEN Null
                  ELSE files[CHOOSE k \in matching : \A j \in matching : k <= j]

\* a || b on paths
OrPath(a, b) == IF a # Null THEN a ELSE b

\* (mutation: the unsuffixed pattern is tried first)
EventsPath_UnsuffixedFirst(dir) ==
    OrPath(findCSVFile(dir, PatternEvents), findCSVFile(dir, PatternEvents1))

\* this.findCSVFile('Events_Event_name1.csv') || this.findCSVFile('Events_Event_name.csv')
EventsPath(dir) ==
    OrPath(findCSVFile(dir, PatternEvents1), findCSVFile(dir, PatternEvents))

ScreensPath(dir) ==
    OrPath(findCSVFile(dir, PatternScreens1), findCSVFile(dir, PatternScreens))

OverviewPath(dir) == findCSVFile(dir, PatternOverview)

FileNotFound == "File not found"

\* (mutation: a missing overview file gives an empty list)
loadOverviewDataIn_EmptyWhenMissing(dir) ==
    IF OverviewPath(dir) = Null THEN {Returned(<<>>)}
    ELSE loadOverviewData(ReadFile(dir, OverviewPath(dir)))

\* loadOverviewData of the repository of the folder: its possible outcomes
loadOverviewDataIn(dir) ==
    IF OverviewPath(dir) = Null THEN {Thrown(FileNotFound)}
    ELSE loadOverviewData(ReadFile(dir, OverviewPath(dir)))

loadScreenViewsDataIn(dir) ==
    IF ScreensPath(dir) = Null THEN Thrown(FileNotFound)
    ELSE loadScreenViewsData(ReadFile(dir, ScreensPath(dir)))

loadEventsDataIn(dir) ==
    IF EventsPath(dir) = Null THEN Thrown(FileNotFound)
    ELSE loadEventsData(ReadFile(dir, EventsPath(dir)))

PrevDay(t) ==
    IF t.d > 1 THEN [t EXCEPT !.d = t.d - 1]
    ELSE IF t.m > 1 THEN [t EXCEPT !.m = t.m - 1, !.d = DaysInMonth(t.y, t.m - 1)]
    ELSE [t EXCEPT !.y = t.y - 1, !.m = 12, !.d = 31]

\* startDate.setDate(startDate.getDate() - n)
RECURSIVE MinusDays(_, _)
MinusDays(t, n) == IF n = 0 THEN t ELSE MinusDays(PrevDay(t), n - 1)

\* the range (today minus 30 days, today)
Last30Days(now) ==
    [startDate |-> FormatDate(MinusDays(now, 30)), endDate |-> FormatDate(now)]

\* (mutation: one of the two comments is enough)
getDefaultDateRange_EitherComment(dir, now) ==
    IF OverviewPath(dir) = Null THEN Last30Days(now)
    ELSE LET text  == ReadFile(dir, OverviewPath(dir))
             start == MatchDate(text, StartDateLabel)
             end   == MatchDate(text, EndDateLabel)
         IN  IF start # <<>> \/ end # <<>>
             THEN [startDate |-> IF start # <<>> THEN IsoText(start) ELSE <<>>,
                   endDate   |-> IF end # <<>> THEN IsoText(end) ELSE <<>>]
             ELSE Last30Days(now)

getDefaultDateRange(dir, now) ==
    IF OverviewPath(dir) = Null THEN Last30Days(now)
    ELSE LET text  == ReadFile(dir, OverviewPath(dir))
             start == MatchDate(text, StartDateLabel)
             end   == MatchDate(text, EndDateLabel)
         IN  IF start # <<>> /\ end # <<>>
             THEN [startDate |-> IsoText(start), endDate |-> IsoText(end)]
             ELSE Last30Days(now)

\* x || 0 on a number
OrZero(a) == IF a.nan THEN Number(0, 1) ELSE a

\* events.find(e => e.eventName === 'screen_view')?.totalUsers || 0
TotalActiveUsers(evs) ==
    LET hits == {k \in 1..Len(evs) : evs[k].eventName = EvScreenView}
    IN  IF hits = {} THEN Number(0, 1)
        ELSE OrZero(evs[CHOOSE k \in hits : \A j \in hits : k <= j].totalUsers)

\* screenViews.reduce((sum, sv) => sum + sv.views, 0)
RECURSIVE SumViews(_)
SumViews(screens) ==
    IF screens = <<>> THEN Number(0, 1)
    ELSE IF Len(screens) = 1 THEN Add(Number(0, 1), screens[1].views)
    ELSE LET half == Len(screens) \div 2 IN
         Add(SumViews(SubSeq(screens, 1, half)), SumViews(SubSeq(screens, half + 1, Len(screens))))

\* events.reduce((sum, e) => sum + e.eventCount, 0)
RECURSIVE SumEventCount(_)
SumEventCount(evs) ==
    IF evs = <<>> THEN Number(0, 1)
    ELSE IF Len(evs) = 1 THEN Add(Number(0, 1), evs[1].eventCount)
    ELSE LET half == Len(evs) \div 2 IN
         Add(SumEventCount(SubSeq(evs, 1, half)), SumEventCount(SubSeq(evs, half + 1, Len(evs))))

\* a * b
Mul(a, b) == IF a.nan \/ b.nan THEN NaN ELSE Number(a.num * b.num, a.den * b.den)

\* the decimal digits of a natural number
RECURSIVE NatDigits(_)
NatDigits(n) ==
    IF n < 10 THEN <<DigitChars[n + 1]>>
    ELSE NatDigits(n \div 10) \o <<DigitChars[(n % 10) + 1]>>

NaNText == <<"N","a","N">>

\* `${x}` for a number: the shortest decimal text (the numbers the report
\* writes this way are integers, sums of integers, or NaN)
NumberToString(a) ==
    IF a.nan THEN NaNText
    ELSE LET k == CHOOSE j \in 0..9 :
                    /\ Pow10(j) % a.den = 0
                    /\ \A i \in 0..(j - 1) : Pow10(i) % a.den # 0
             scaled == (Abs(a.num) * Pow10(k)) \div a.den
         IN  (IF a.num < 0 THEN <<"-">> ELSE <<>>)
             \o NatDigits(scaled \div Pow10(k))
             \o (IF k = 0 THEN <<>> ELSE <<".">> \o PadDigits(scaled % Pow10(k), k))

\* x.toFixed(f): the nearest multiple of 10^-f, the larger one of two equally
\* near, f digits after the point; the sign is kept ("-0.0")
ToFixed(a, f) ==
    IF a.nan THEN NaNText
    ELSE LET n == (2 * Abs(a.num) * Pow10(f) + a.den) \div (2 * a.den) IN
         (IF a.num < 0 THEN <<"-">> ELSE <<>>)
         \o NatDigits(n \div Pow10(f))
         \o (IF f = 0 THEN <<>> ELSE <<".">> \o PadDigits(n % Pow10(f), f))

\* the position at which a stable descending sort on the field key places x
InsertDescBy(sorted, x, key) ==
    LET after == {k \in 1..Len(sorted) : Less(sorted[k][key], x[key])}
        at    == IF after = {} THEN Len(sorted) + 1
                 ELSE CHOOSE k \in after : \A j \in after : k <= j
    IN  SubSeq(sorted, 1, at - 1) \o <<x>> \o SubSeq(sorted, at, Len(sorted))

\* the elements of list inserted one after the other
RECURSIVE InsertAllDescBy(_, _, _)
InsertAllDescBy(sorted, list, key) ==
    IF list = <<>> THEN sorted
    ELSE IF Len(list) = 1 THEN InsertDescBy(sorted, list[1], key)
    ELSE LET half  == Len(list) \div 2
             first == InsertAllDescBy(sorted, SubSeq(list, 1, half), key)
         IN  IF Len(first) >= Len(sorted)
             THEN InsertAllDescBy(first, SubSeq(list, half + 1, Len(list)), key)
             ELSE first

\* [...list].sort((a, b) => b[key] - a[key])
SortDescBy(list, key) == InsertAllDescBy(<<>>, list, key)

\* list.slice(0, n)
Slice(list, n) == SubSeq(list, 1, Min(n, Len(list)))

\* list.filter(keep) for the rows whose positions are in keep
KeepAt(list, keep) ==
    [k \in 1..Cardinality(keep \cap 1..Len(list)) |->
        list[CHOOSE i \in keep \cap 1..Len(list) :
                Cardinality({j \in keep : j < i}) = k - 1]]

\* screenViews.filter(sv => sv.screenClass && sv.screenClass !== '(not set)'
\*                          && sv.screenClass !== '(other)')
FeatureScreens(screens) ==
    KeepAt(screens, {k \in 1..Len(screens) : IsFeatureScreen(screens[k])})

\* events.find(e => e.eventName === name)?.[field] || 0
FieldOfEvent(evs, name, field) ==
    LET hits == {k \in 1..Len(evs) : evs[k].eventName = name}
    IN  IF hits = {} THEN Number(0, 1)
        ELSE OrZero(evs[CHOOSE k \in hits : \A j \in hits : k <= j][field])

BreakdownRow(sv) ==
    [screenClass       |-> sv.screenClass,
     views             |-> sv.views,
     activeUsers       |-> sv.activeUsers,
     avgEngagementTime |-> sv.avgEngagementTime,
     viewsPerUser      |-> sv.viewsPerActiveUser]

getScreenViewAnalysis(evs, screens) ==
    LET kept == FeatureScreens(screens) IN
    [totalScreenViews    |-> FieldOfEvent(evs, EvScreenView, "eventCount"),
     screenViewBreakdown |->
        SortDescBy([k \in 1..Len(kept) |-> BreakdownRow(kept[k])], "views")]

EngagementRow(sv) ==
    [screenClass       |-> sv.screenClass,
     engagements       |-> sv.eventCount,
     activeUsers       |-> sv.activeUsers,
     avgEngagementTime |-> sv.avgEngagementTime]

getUserEngagementAnalysis(evs, screens) ==
    LET kept   == FeatureScreens(screens)
        mapped == [k \in 1..Len(kept) |-> EngagementRow(kept[k])]
        engaged == KeepAt(mapped, {k \in 1..Len(mapped) :
                                      Less(Number(0, 1), mapped[k].engagements)})
    IN  [totalEngagements      |-> FieldOfEvent(evs, EvUserEngagement, "eventCount"),
         totalUsers            |-> FieldOfEvent(evs, EvUserEngagement, "totalUsers"),
         avgEngagementsPerUser |-> FieldOfEvent(evs, EvUserEngagement, "eventCountPerUser"),
         engagementByScreen    |-> SortDescBy(engaged, "engagements")]

\* screenViews.reduce((sum, sv) => sum + term(sv), 0) for the three sums of
\* analyzeEngagement
RECURSIVE SumOver(_, _)
SumOver(screens, what) ==
    IF screens = <<>> THEN Number(0, 1)
    ELSE IF Len(screens) = 1
    THEN IF what = "engagementTime"
         THEN Mul(screens[1].avgEngagementTime, screens[1].activeUsers)
         ELSE screens[1][what]
    ELSE LET half == Len(screens) \div 2 IN
         Add(SumOver(SubSeq(screens, 1, half), what),
             SumOver(SubSeq(screens, half + 1, Len(screens)), what))

\* (the Map engagementByScreen is left out: no reader in the service, and
\* a Map has no JSON form)
analyzeEngagement(screens) ==
    LET totalUsers == SumOver(screens, "activeUsers") IN
    [totalEngagements  |-> SumOver(screens, "eventCount"),
     avgEngagementTime |-> IF Less(Number(0, 1), totalUsers)
                           THEN Div(SumOver(screens, "engagementTime"), totalUsers)
                           ELSE Number(0, 1),
     topScreens        |-> Slice(SortDescBy(screens, "avgEngagementTime"), 10)]

Failed(kind) == [error |-> kind, summary |-> None]

\* the summary getDashboardSummary returns.  The repository's analyses read
\* the two files again; within a request they read what the loaders read.
Summary(overview, evs, screens, range) ==
    [error   |-> "none",
     summary |-> Some([totalActiveUsers    |-> TotalActiveUsers(evs),
                       totalScreenViews    |-> SumViews(screens),
                       totalEvents         |-> SumEventCount(evs),
                       topFeatures         |-> analyzeFeatureUsage(evs, screens),
                       topScreens          |-> Slice(SortDescBy(screens, "views"), 20),
                       topEvents           |-> SortDescBy(evs, "eventCount"),
                       engagementAnalysis  |-> analyzeEngagement(screens),
                       dailyData           |-> overview,
                       dateRange           |-> range,
                       screenViewAnalysis  |-> getScreenViewAnalysis(evs, screens),
                       userEngagementAnalysis |-> getUserEngagementAnalysis(evs, screens),
                       featureUsageDetails |-> getFeatureUsageAnalysis(evs, screens)])]

\* getDashboardSummary on the folder: its possible outcomes.  The loaders
\* are called in the order overview, events, screens and the first error is
\* thrown on.
getDashboardSummary(dir, now) ==
    {IF overview.error # "none" THEN Failed(overview.error)
     ELSE IF loadEventsDataIn(dir).error # "none" THEN Failed(loadEventsDataIn(dir).error)
     ELSE IF loadScreenViewsDataIn(dir).error # "none"
     THEN Failed(loadScreenViewsDataIn(dir).error)
     ELSE Summary(overview.rows, loadEventsDataIn(dir).rows,
                  loadScreenViewsDataIn(dir).rows, getDefaultDateRange(dir, now)) :
        overview \in loadOverviewDataIn(dir)}

(* The text report (convertToCSV) *)

\* 'Firebase Analytics Report'
TitleText == <<"F","i","r","e","b","a","s","e"," ","A","n","a","l","y","t","i","c","s"," ","R","e","p","o","r","t">>
\* ' - '
TitleSep == <<" ","-"," ">>
\* 'Period,'
PeriodLabel == <<"P","e","r","i","o","d",",">>
\* ' ~ '
PeriodSep == <<" ","~"," ">>
\* 'Data Source,'
DataSourceLabel == <<"D","a","t","a"," ","S","o","u","r","c","e",",">>
\* 'default'
DefaultFolder == <<"d","e","f","a","u","l","t">>
\* 'SUMMARY'
SummaryTitle == <<"S","U","M","M","A","R","Y">>
\* 'Metric,Value'
SummaryHeader == <<"M","e","t","r","i","c",",","V","a","l","u","e">>
\* 'Total Active Users,'
TotalActiveUsersLabel == <<"T","o","t","a","l"," ","A","c","t","i","v","e"," ","U","s","e","r","s",",">>
\* 'Total Screen Views,'
TotalScreenViewsLabel == <<"T","o","t","a","l"," ","S","c","r","e","e","n"," ","V","i","e","w","s",",">>
\* 'Total Events,'
TotalEventsLabel == <<"T","o","t","a","l"," ","E","v","e","n","t","s",",">>
\* 'Average Engagement Time (seconds),'
AvgEngagementLabel == <<"A","v","e","r","a","g","e"," ","E","n","g","a","g","e","m","e","n","t"," ","T","i","m","e"," ","(","s","e","c","o","n","d","s",")",",">>
\* 'SCREEN VIEW ANALYSIS'
ScreenViewTitle == <<"S","C","R","E","E","N"," ","V","I","E","W"," ","A","N","A","L","Y","S","I","S">>
\* 'Screen Class,Views,Active Users,Views Per User,Avg Engagement Time (s)'
ScreenViewHeader == <<"S","c","r","e","e","n"," ","C","l","a","s","s",",","V","i","e","w","s",",","A","c","t","i","v","e"," ","U","s","e","r","s",",","V","i","e","w","s"," ","P","e","r"," ","U","s","e","r",",","A","v","g"," ","E","n","g","a","g","e","m","e","n","t"," ","T","i","m","e"," ","(","s",")">>
\* 'USER ENGAGEMENT ANALYSIS'
EngagementTitle == <<"U","S","E","R"," ","E","N","G","A","G","E","M","E","N","T"," ","A","N","A","L","Y","S","I","S">>
\* 'Screen Class,Engagements,Active Users,Avg Engagement Time (s)'
EngagementHeader == <<"S","c","r","e","e","n"," ","C","l","a","s","s",",","E","n","g","a","g","e","m","e","n","t","s",",","A","c","t","i","v","e"," ","U","s","e","r","s",",","A","v","g"," ","E","n","g","a","g","e","m","e","n","t"," ","T","i","m","e"," ","(","s",")">>
\* 'ALL EVENTS'
AllEventsTitle == <<"A","L","L"," ","E","V","E","N","T","S">>
\* 'Event Name,Event Count,Total Users,Event Count Per User'
AllEventsHeader == <<"E","v","e","n","t"," ","N","a","m","e",",","E","v","e","n","t"," ","C","o","u","n","t",",","T","o","t","a","l"," ","U","s","e","r","s",",","E","v","e","n","t"," ","C","o","u","n","t"," ","P","e","r"," ","U","s","e","r">>
\* 'TOP SCREENS'
TopScreensTitle == <<"T","O","P"," ","S","C","R","E","E","N","S">>
\* 'COMPREHENSIVE FEATURE USAGE'
FeatureUsageTitle == <<"C","O","M","P","R","E","H","E","N","S","I","V","E"," ","F","E","A","T","U","R","E"," ","U","S","A","G","E">>
\* 'Feature Name,Type,Usage Count,Unique Users,Avg Usage Per User,Engagement Time (s)'
FeatureUsageHeader == <<"F","e","a","t","u","r","e"," ","N","a","m","e",",","T","y","p","e",",","U","s","a","g","e"," ","C","o","u","n","t",",","U","n","i","q","u","e"," ","U","s","e","r","s",",","A","v","g"," ","U","s","a","g","e"," ","P","e","r"," ","U","s","e","r",",","E","n","g","a","g","e","m","e","n","t"," ","T","i","m","e"," ","(","s",")">>
\* 'TOP FEATURES SUMMARY'
TopFeaturesTitle == <<"T","O","P"," ","F","E","A","T","U","R","E","S"," ","S","U","M","M","A","R","Y">>
\* 'Feature Name,Category,Usage Count,Unique Users,Avg Usage Per User'
TopFeaturesHeader == <<"F","e","a","t","u","r","e"," ","N","a","m","e",",","C","a","t","e","g","o","r","y",",","U","s","a","g","e"," ","C","o","u","n","t",",","U","n","i","q","u","e"," ","U","s","e","r","s",",","A","v","g"," ","U","s","a","g","e"," ","P","e","r"," ","U","s","e","r">>

\* the featureType / category of an entry as text
TagText(tag) ==
    CASE tag = "screen" -> <<"s","c","r","e","e","n">>
      [] tag = "event" -> <<"e","v","e","n","t">>
      [] tag = "menu" -> <<"m","e","n","u">>
      [] tag = "action" -> <<"a","c","t","i","o","n">>
      [] tag = "system" -> <<"s","y","s","t","e","m">>
      [] tag = "engagement" -> <<"e","n","g","a","g","e","m","e","n","t">>


\* fields.join(',') as the template literals of the rows do
Row(fields) == Join(fields, Comma)

ScreenViewLine(screen) ==
    Row(<<screen.screenClass, NumberToString(screen.views), NumberToString(screen.activeUsers),
          ToFixed(screen.viewsPerUser, 2), ToFixed(screen.avgEngagementTime, 1)>>)

EngagementLine(screen) ==
    Row(<<screen.screenClass, NumberToString(screen.engagements),
          NumberToString(screen.activeUsers), ToFixed(screen.avgEngagementTime, 1)>>)

EventLine(event) ==
    Row(<<event.eventName, NumberToString(event.eventCount), NumberToString(event.totalUsers),
          ToFixed(event.eventCountPerUser, 2)>>)

TopScreenLine(screen) ==
    Row(<<screen.screenClass, NumberToString(screen.views), NumberToString(screen.activeUsers),
          ToFixed(screen.viewsPerActiveUser, 2), ToFixed(screen.avgEngagementTime, 1)>>)

\* feature.engagementTime ? feature.engagementTime.toFixed(1) : ''
EngagementTimeText(feature) ==
    IF feature.engagementTime = None THEN <<>>
    ELSE LET time == feature.engagementTime[1] IN
         IF time.nan \/ time.num = 0 THEN <<>> ELSE ToFixed(time, 1)

FeatureLine(feature) ==
    Row(<<feature.featureName, TagText(feature.featureType), NumberToString(feature.usageCount),
          NumberToString(feature.uniqueUsers), ToFixed(feature.avgUsagePerUser, 2),
          EngagementTimeText(feature)>>)

TopFeatureLine(feature) ==
    Row(<<feature.featureName, TagText(feature.category), NumberToString(feature.usageCount),
          NumberToString(feature.uniqueUsers), ToFixed(feature.avgUsagePerUser, 2)>>)

\* folder && folder !== 'default'
IsNamedFolder(name) == name # <<>> /\ name # DefaultFolder

\* the lines up to the first section
ReportHead(s, name) ==
    <<IF IsNamedFolder(name) THEN TitleText \o TitleSep \o name ELSE TitleText,
      PeriodLabel \o s.dateRange.startDate \o PeriodSep \o s.dateRange.endDate>>
    \o (IF IsNamedFolder(name) THEN <<DataSourceLabel \o name>> ELSE <<>>)
    \o << <<>>,
          SummaryTitle,
          SummaryHeader,
          TotalActiveUsersLabel \o NumberToString(s.totalActiveUsers),
          TotalScreenViewsLabel \o NumberToString(s.totalScreenViews),
          TotalEventsLabel \o NumberToString(s.totalEvents),
          AvgEngagementLabel \o ToFixed(s.engagementAnalysis.avgEngagementTime, 2),
          <<>> >>

\* the six lists convertToCSV writes, each cut as the code cuts it
ScreenViewRows(s) == Slice(s.screenViewAnalysis.screenViewBreakdown, 30)
EngagementRows(s) == Slice(s.userEngagementAnalysis.engagementByScreen, 30)
AllEventRows(s) == s.topEvents
TopScreenRows(s) == s.topScreens
\* (mutation: the features are cut at 30 like the other lists)
FeatureUsageRows_Thirty(s) == Slice(s.featureUsageDetails, 30)

FeatureUsageRows(s) == Slice(s.featureUsageDetails, 50)

TopFeatureRows(s) == Slice(s.topFeatures, 30)

\* the array lines of convertToCSV
ReportLines(s, name) ==
    ReportHead(s, name)
    \o <<ScreenViewTitle, ScreenViewHeader>>
    \o [k \in 1..Len(ScreenViewRows(s)) |-> ScreenViewLine(ScreenViewRows(s)[k])]
    \o << <<>>, EngagementTitle, EngagementHeader>>
    \o [k \in 1..Len(EngagementRows(s)) |-> EngagementLine(EngagementRows(s)[k])]
    \o << <<>>, AllEventsTitle, AllEventsHeader>>
    \o [k \in 1..Len(AllEventRows(s)) |-> EventLine(AllEventRows(s)[k])]
    \o << <<>>, TopScreensTitle, ScreenViewHeader>>
    \o [k \in 1..Len(TopScreenRows(s)) |-> TopScreenLine(TopScreenRows(s)[k])]
    \o << <<>>, FeatureUsageTitle, FeatureUsageHeader>>
    \o [k \in 1..Len(FeatureUsageRows(s)) |-> FeatureLine(FeatureUsageRows(s)[k])]
    \o << <<>>, TopFeaturesTitle, TopFeaturesHeader>>
    \o [k \in 1..Len(TopFeatureRows(s)) |-> TopFeatureLine(TopFeatureRows(s)[k])]

\* return lines.join('\n')
convertToCSV(s, name) == Join(ReportLines(s, name), NL)

\* the folders route: files.some(file => file.toLowerCase().startsWith(prefix)
\* && file.toLowerCase().endsWith('.csv'))
OverviewPrefix == <<"f","i","r","e","b","a","s","e","_","o","v","e","r","v","i","e","w">>
EventsPrefix == <<"e","v","e","n","t","s","_","e","v","e","n","t","_","n","a","m","e">>
PagesPrefix == <<"p","a","g","e","s","_","a","n","d","_","s","c","r","e","e","n","s","_","p","a","g","e","_","t","i","t","l","e","_","a","n","d","_","s","c","r","e","e","n","_","c","l","a","s","s">>

\* (mutation: the names are tested without lowercasing)
SomeFile_CaseSensitive(files, prefix) ==
    \E k \in 1..Len(files) : StartsWith(files[k], prefix) /\ EndsWith(files[k], DotCsv)

SomeFile(files, prefix) ==
    \E k \in 1..Len(files) :
        StartsWith(ToLowerCase(files[k]), prefix) /\ EndsWith(ToLowerCase(files[k]), DotCsv)

\* the callback of the filter on the folder names: hasOverview && hasEvents && hasPages
HasRequiredFiles(files) ==
    LET hasOverview == SomeFile(files, OverviewPrefix)
        hasEvents   == SomeFile(files, EventsPrefix)
        hasPages    == SomeFile(files, PagesPrefix)
    IN  hasOverview /\ hasEvents /\ hasPages

\* the name of the folder of the requests below <cwd>/data, and a plain file beside it
ProjectFolder == <<"p", "1">>
ReadmeName == <<"R","E","A","D","M","E">>

\* the directories <cwd>/data may be when the folder of the requests is dir: with the
\* folder and a plain file in it, or (when the folder is missing) empty or missing
DataDirs(dir) ==
    IF dir.exists
    THEN {[exists |-> TRUE,
           entries |-> <<[name |-> ReadmeName, isDirectory |-> FALSE, files |-> <<>>],
                         [name |-> ProjectFolder, isDirectory |-> TRUE,
                          files |-> FileNames(dir)]>>]}
    ELSE {[exists |-> FALSE, entries |-> <<>>],
          [exists |-> TRUE,
           entries |-> <<[name |-> ReadmeName, isDirectory |-> FALSE, files |-> <<>>]>>]}

\* entries.filter(isDirectory).map(name).filter(has the required files).sort(); the
\* directories above hold at most one folder, which sort() leaves in place
ListFolders(dataDir) ==
    IF ~dataDir.exists THEN <<>>
    ELSE LET entries == dataDir.entries
             keep == {k \in 1..Len(entries) :
                        entries[k].isDirectory /\ HasRequiredFiles(entries[k].files)}
             kept == KeepAt(entries, keep)
         IN  [k \in 1..Len(kept) |-> kept[k].name]

\* NextResponse.json({ folders })
FoldersAnswer(dataDir) ==
    [status |-> 200, error |-> "none", body |-> Some(ListFolders(dataDir))]

\* the try / catch of the analytics route
Answer(outcome) ==
    IF outcome.error # "none"
    THEN [status |-> 500, error |-> outcome.error, body |-> None]
    ELSE [status |-> 200, error |-> "none", body |-> outcome.summary]

-----------------------------------------------------------------------------
(* Specification of the requests on a data folder *)

MaxEntries == 3

N_Overview == PatternOverview
N_Events1Lower == <<"e","v","e","n","t","s","_","e","v","e","n","t","_","n","a","m","e","1",".","c","s","v">>
N_Events10 == <<"E","v","e","n","t","s","_","E","v","e","n","t","_","n","a","m","e","1","0",".","c","s","v">>
N_Events == PatternEvents
N_Events2Lower == <<"e","v","e","n","t","s","_","e","v","e","n","t","_","n","a","m","e","2",".","c","s","v">>
N_EventsTxt == <<"E","v","e","n","t","s","_","E","v","e","n","t","_","n","a","m","e",".","t","x","t">>
N_Screens1 == PatternScreens1
N_ScreensUpper == <<"P","A","G","E","S","_","A","N","D","_","S","C","R","E","E","N","S","_","P","A","G","E","_","T","I","T","L","E","_","A","N","D","_","S","C","R","E","E","N","_","C","L","A","S","S",".","C","S","V">>

\* # End date: 20240230
OvEnd0230 ==
    <<"#"," ","E","n","d"," ","d","a","t","e",":"," ","2","0","2","4","0","2","3","0">>

\* the texts an overview file can have: a valid range, a day that does not
\* exist, an end before the start, and one of the two comments missing
OverviewTexts ==
    {Join(<<OvStart0101, OvEnd0103, OvHeader, OvRow1, OvRow2>>, NL),
     Join(<<OvStart0101, OvEnd0230, OvHeader, OvRow1>>, NL),
     Join(<<OvStart0228, OvEnd0101, OvHeader, OvRow1>>, NL),
     Join(<<OvStart0101, OvEndNone, OvHeader, OvRow1>>, NL),
     Join(<<OvStartNone, OvEnd0103, OvHeader, OvRow1>>, NL)}

\* the texts of the other files, one per name
TextOf(name) ==
    IF name = N_Events1Lower THEN Join(<<EvHeader, EvRowScreenView, EvRowMenu>>, NL)
    ELSE IF name = N_Events10 THEN Join(<<EvHeader, EvRowOther>>, NL)
    ELSE IF name = N_Events THEN Join(<<EvHeader, EvRowShort, EvRowMenu>>, NL)
    ELSE IF name = N_Events2Lower THEN Join(<<EvHeader, EvRowNoName>>, NL)
    ELSE IF name = N_EventsTxt THEN Join(<<EvHeader>>, NL)
    ELSE IF name = N_Screens1 THEN Join(<<ScHeader, ScRowHome, ScRowBad>>, NL)
    ELSE Join(<<ScHeader, ScRowNotSet>>, NL)

Entries ==
    {[name |-> N_Overview, text |-> t] : t \in OverviewTexts}
    \cup {[name |-> n, text |-> TextOf(n)] :
            n \in {N_Events1Lower, N_Events10, N_Events, N_Events2Lower, N_EventsTxt,
                   N_Screens1, N_ScreensUpper}}

\* the folders: none, or a listing without repeated names
Folders ==
    {NoFolder}
    \cup {[exists |-> TRUE, entries |-> es] :
            es \in {l \in SeqsUpTo(Entries, MaxEntries) :
                      \A a, b \in 1..Len(l) : l[a].name = l[b].name => a = b}}

Patterns ==
    {PatternOverview, PatternEvents1, PatternEvents, PatternScreens1, PatternScreens}

Todays ==
    {[valid |-> TRUE, y |-> 2024, m |-> 3, d |-> 15],
     [valid |-> TRUE, y |-> 2024, m |-> 1, d |-> 10]}

InitRequest ==
    /\ pc = "request"
    /\ folder \in Folders
    /\ today = NoDate
    /\ pattern = <<>>
    /\ located = Null
    /\ dateRange = NoRange
    /\ response = NoResponse
    /\ content = <<>>
    /\ sectionHeader = <<>>
    /\ scan = NoScan
    /\ records = <<>>
    /\ loader = "none"
    /\ result = NoResult
    /\ NoFeatures
    /\ NoReport
    /\ NoPage
    /\ NoPath

FindCSVFile ==
    /\ pc = "request"
    /\ \E pat \in Patterns :
        /\ pattern' = pat
        /\ located' = findCSVFile(folder, pat)
    /\ pc' = "found"
    /\ UNCHANGED <<parseVars, loadVars, featureVars, folder, today, dateRange, response, reportVars, pageVars, pathVars>>

LoadOverviewDataIn ==
    /\ pc = "request"
    /\ loader' = "overview"
    /\ located' = OverviewPath(folder)
    /\ result' \in loadOverviewDataIn(folder)
    /\ pc' = "read"
    /\ UNCHANGED <<parseVars, featureVars, folder, today, pattern, dateRange, response, reportVars, pageVars, pathVars>>

LoadScreenViewsDataIn ==
    /\ pc = "request"
    /\ loader' = "screens"
    /\ located' = ScreensPath(folder)
    /\ result' = loadScreenViewsDataIn(folder)
    /\ pc' = "read"
    /\ UNCHANGED <<parseVars, featureVars, folder, today, pattern, dateRange, response, reportVars, pageVars, pathVars>>

LoadEventsDataIn ==
    /\ pc = "request"
    /\ loader' = "events"
    /\ located' = EventsPath(folder)
    /\ result' = loadEventsDataIn(folder)
    /\ pc' = "read"
    /\ UNCHANGED <<parseVars, featureVars, folder, today, pattern, dateRange, response, reportVars, pageVars, pathVars>>

GetDefaultDateRange ==
    /\ pc = "request"
    /\ \E now \in Todays :
        /\ today' = now
        /\ dateRange' = getDefaultDateRange(folder, now)
    /\ pc' = "ranged"
    /\ UNCHANGED <<parseVars, loadVars, featureVars, folder, pattern, located, response, reportVars, pageVars, pathVars>>

\* GET /api/analytics?folder=...
GetAnalytics ==
    /\ pc = "request"
    /\ \E now \in Todays :
        /\ today' = now
        /\ \E outcome \in getDashboardSummary(folder, now) : response' = Answer(outcome)
    /\ pc' = "answered"
    /\ UNCHANGED <<parseVars, loadVars, featureVars, folder, pattern, located, dateRange, reportVars, pageVars, pathVars>>

\* GET /api/folders
GetFolders ==
    /\ pc = "request"
    /\ \E dataDir \in DataDirs(folder) : response' = FoldersAnswer(dataDir)
    /\ pc' = "listed"
    /\ UNCHANGED <<parseVars, loadVars, featureVars, folder, today, pattern, located, dateRange, reportVars, pageVars, pathVars>>

NextRequest ==
    \/ FindCSVFile
    \/ LoadOverviewDataIn
    \/ LoadScreenViewsDataIn
    \/ LoadEventsDataIn
    \/ GetDefaultDateRange
    \/ GetAnalytics
    \/ GetFolders

SpecRequest == InitRequest /\ [][NextRequest]_vars

-----------------------------------------------------------------------------
(* Properties of the requests on a data folder *)

\* the positions of the text at which the label is followed by eight digits
DateTextAt(text, label) ==
    {i \in 1..Len(text) :
        /\ i + Len(label) + 7 <= Len(text)
        /\ SubSeq(text, i, i + Len(label) - 1) = label
        /\ \A k \in 0..7 : text[i + Len(label) + k] \in
              {"0","1","2","3","4","5","6","7","8","9"}}

HasDateText(text, label) == DateTextAt(text, label) # {}

\* the folder has an entry whose lowercased name starts with the lowercased
\* base name and ends with ".csv"
HasEntryFor(base) ==
    /\ folder.exists
    /\ \E k \in 1..Len(folder.entries) :
        /\ StartsWith(ToLowerCase(folder.entries[k].name), ToLowerCase(base))
        /\ EndsWith(ToLowerCase(folder.entries[k].name), DotCsv)

\* a pattern without its ".csv" ending
BaseOf(pat) == SubSeq(pat, 1, Len(pat) - 4)

AllThreeLocated ==
    /\ HasEntryFor(BaseOf(PatternOverview))
    /\ HasEntryFor(BaseOf(PatternEvents))
    /\ HasEntryFor(BaseOf(PatternScreens))

\* the text of the overview file the loaders locate
OverviewText == ReadFile(folder, OverviewPath(folder))

\* C13: when the three files are located and the overview file has both
\* 8-digit date comments, the analytics request is answered with a summary,
\* whatever the values of the two dates and the rest of the files.
C13_SummaryUnlessNotFoundOrNoDates ==
    (/\ pc = "answered"
     /\ AllThreeLocated
     /\ HasDateText(OverviewText, StartDateLabel)
     /\ HasDateText(OverviewText, EndDateLabel))
        => response.status = 200

\* C14: a loader whose file pattern no entry of the folder matches (or whose
\* folder does not exist) throws file-not-found, and the analytics request
\* is then answered with status 500 and no summary.
C14_NotFoundIsFatal ==
    /\ (pc = "read" /\ loader = "overview" /\ ~HasEntryFor(BaseOf(PatternOverview)))
          => result.error = FileNotFound
    /\ (pc = "read" /\ loader = "events" /\ ~HasEntryFor(BaseOf(PatternEvents)))
          => result.error = FileNotFound
    /\ (pc = "read" /\ loader = "screens" /\ ~HasEntryFor(BaseOf(PatternScreens)))
          => result.error = FileNotFound
    /\ (pc = "answered" /\ ~AllThreeLocated)
          => response.status = 500 /\ response.body = None

\* the request was answered with an error for an existing folder that has
\* the overview and the events file but no screens file
C14_Witness ==
    /\ pc = "answered"
    /\ folder.exists
    /\ HasEntryFor(BaseOf(PatternOverview))
    /\ HasEntryFor(BaseOf(PatternEvents))
    /\ ~HasEntryFor(BaseOf(PatternScreens))
    /\ HasDateText(OverviewText, StartDateLabel)
    /\ HasDateText(OverviewText, EndDateLabel)
    /\ response.status = 500
    /\ response.error = FileNotFound

\* C15: loadOverviewData throws whenever the file lacks the Start date or the
\* End date text with 8 digits, even when the "30 days" section has rows.
C15_MissingDateIsFatal ==
    (/\ pc = "loaded"
     /\ loader = "overview"
     /\ ~(HasDateText(content, StartDateLabel) /\ HasDateText(content, EndDateLabel)))
        => result.error = "Could not extract date range from CSV"

\* the overview loader has thrown on a file that has the start date only,
\* and whose section has rows with both cells
C15_Witness ==
    /\ pc = "loaded"
    /\ loader = "overview"
    /\ HasDateText(content, StartDateLabel)
    /\ ~HasDateText(content, EndDateLabel)
    /\ KeepWithBoth(records, ColNthDay, Col30Days) # <<>>
    /\ result.error = "Could not extract date range from CSV"

\* the eight digits after the leftmost label, with dashes: YYYY-MM-DD
DateTextAfter(text, label) ==
    LET i == CHOOSE h \in DateTextAt(text, label) :
                 \A g \in DateTextAt(text, label) : h <= g
        at == i + Len(label)
    IN  SubSeq(text, at, at + 3) \o <<"-">> \o SubSeq(text, at + 4, at + 5)
            \o <<"-">> \o SubSeq(text, at + 6, at + 7)

\* C16: getDefaultDateRange returns (today - 30 days, today) when the
\* overview file is not located or lacks one of the two date comments, and
\* the two dates of the comments as YYYY-MM-DD when both are present.
C16_DateRangeOrLast30Days ==
    pc = "ranged" =>
        IF /\ HasEntryFor(BaseOf(PatternOverview))
           /\ HasDateText(OverviewText, StartDateLabel)
           /\ HasDateText(OverviewText, EndDateLabel)
        THEN /\ dateRange.startDate = DateTextAfter(OverviewText, StartDateLabel)
             /\ dateRange.endDate = DateTextAfter(OverviewText, EndDateLabel)
        ELSE /\ dateRange.endDate = FormatDate(today)
             /\ parseISO(dateRange.startDate).valid
             /\ AddDays(parseISO(dateRange.startDate), 30) = today

\* the range fell back to the last 30 days for a located overview file that
\* has only one of the two comments
C16_Witness ==
    /\ pc = "ranged"
    /\ HasEntryFor(BaseOf(PatternOverview))
    /\ HasDateText(OverviewText, StartDateLabel)
    /\ ~HasDateText(OverviewText, EndDateLabel)
    /\ dateRange.endDate = FormatDate(today)

\* the positions of the entries that match the pattern case-insensitively
PrefixMatches(pat) ==
    {k \in 1..Len(folder.entries) :
        /\ StartsWith(ToLowerCase(folder.entries[k].name), ToLowerCase(BaseOf(pat)))
        /\ EndsWith(ToLowerCase(folder.entries[k].name), DotCsv)}

\* C17: findCSVFile returns the entry named exactly as the pattern when
\* there is one; otherwise the first entry in listing order whose lowercased
\* name starts with the lowercased pattern without ".csv" and ends with
\* ".csv"; and nothing when the folder does not exist or no entry matches.
\* The events loader resolves a folder that holds only events_event_name2.csv.
C17_FindCSVFile ==
    /\ pc = "found" =>
        IF ~folder.exists THEN located = Null
        ELSE IF \E k \in 1..Len(folder.entries) : folder.entries[k].name = pattern
        THEN located = pattern
        ELSE IF PrefixMatches(pattern) = {} THEN located = Null
        ELSE \E k \in PrefixMatches(pattern) :
                /\ \A j \in PrefixMatches(pattern) : k <= j
                /\ located = folder.entries[k].name
    /\ (pc = "read" /\ loader = "events" /\ folder.exists
            /\ FileNames(folder) = <<N_Events2Lower>>)
          => located = N_Events2Lower /\ result.error = "none"

\* the pattern Events_Event_name.csv was resolved to events_event_name2.csv,
\* which is not the first entry of the folder
C17_Witness ==
    /\ pc = "found"
    /\ pattern = PatternEvents
    /\ located = N_Events2Lower
    /\ folder.entries[1].name # N_Events2Lower

\* the folder has an entry whose name is the pattern up to letter case
HasExport(pat) ==
    /\ folder.exists
    /\ \E k \in 1..Len(folder.entries) :
        ToLowerCase(folder.entries[k].name) = ToLowerCase(pat)

Suffixed(kind) == IF kind = "events" THEN PatternEvents1 ELSE PatternScreens1

Unsuffixed(kind) == IF kind = "events" THEN PatternEvents ELSE PatternScreens

\* C18 as stated: when the folder has both the "1"-suffixed and the
\* unsuffixed export of the events or the screens dataset, in any letter
\* case, the loader reads the "1"-suffixed file.
C18_ReadsSuffixedExport ==
    (/\ pc = "read"
     /\ loader \in {"events", "screens"}
     /\ HasExport(Suffixed(loader))
     /\ HasExport(Unsuffixed(loader)))
        => ToLowerCase(located) = ToLowerCase(Suffixed(loader))

\* C18 amended: the loader reads an entry that matches the "1"-suffixed
\* pattern whenever one exists (the exactly named one if present, otherwise
\* the first in listing order, which can be another export such as
\* Events_Event_name10.csv), and an entry that matches only the unsuffixed
\* pattern is read only when none matches the "1"-suffixed pattern.
C18_SuffixedPatternFirst ==
    (pc = "read" /\ loader \in {"events", "screens"} /\ folder.exists) =>
        /\ PrefixMatches(Suffixed(loader)) # {} =>
              /\ \E k \in PrefixMatches(Suffixed(loader)) : located = folder.entries[k].name
              /\ (\E k \in 1..Len(folder.entries) :
                      folder.entries[k].name = Suffixed(loader))
                    => located = Suffixed(loader)
              /\ (\A k \in 1..Len(folder.entries) :
                      folder.entries[k].name # Suffixed(loader))
                    => \E k \in PrefixMatches(Suffixed(loader)) :
                          /\ \A j \in PrefixMatches(Suffixed(loader)) : k <= j
                          /\ located = folder.entries[k].name
        /\ (PrefixMatches(Suffixed(loader)) = {} /\ PrefixMatches(Unsuffixed(loader)) # {})
              => \E k \in PrefixMatches(Unsuffixed(loader)) : located = folder.entries[k].name

\* the events loader has read the lowercase "1"-suffixed export although
\* the unsuffixed export is listed before it
C18_Witness ==
    /\ pc = "read"
    /\ loader = "events"
    /\ HasExport(PatternEvents1)
    /\ \E j, k \in 1..Len(folder.entries) :
        /\ j < k
        /\ folder.entries[j].name = PatternEvents
        /\ folder.entries[k].name = N_Events1Lower
    /\ located = N_Events1Lower

-----------------------------------------------------------------------------
(* Specification of parseCSV on sections with quotes: the structured parse  *)
(* and the line-by-line parse of the catch block                            *)

\* a, b
Q_Header == <<"a",","," ","b">>
\* 1,2
Q_Plain == <<"1",",","2">>
\* "x,y
Q_Open == <<"\"","x",",","y">>
\* z",4
Q_Close == <<"z","\"",",","4">>
\* "p"q,3
Q_Trailing == <<"\"","p","\"","q",",","3">>
\* 5
Q_Short == <<"5">>
\* "7, 8",9
Q_Quoted == <<"\"","7",","," ","8","\"",",","9">>
\* #"
Q_Comment == <<"#","\"">>

QuoteLinePool ==
    {Q_Plain, Q_Open, Q_Close, Q_Trailing, Q_Short, Q_Quoted, Q_Comment}

QuoteFiles == {Join(<<Q_Header>> \o ls, NL) : ls \in SeqsUpTo(QuoteLinePool, MaxLines)}

InitQuote ==
    /\ pc = "parse"
    /\ content \in QuoteFiles
    /\ sectionHeader = <<>>
    /\ scan = NoScan
    /\ records = <<>>
    /\ loader = "none"
    /\ result = NoResult
    /\ NoFeatures
    /\ NoRequest
    /\ NoReport
    /\ NoPage
    /\ NoPath

SpecQuote == InitQuote /\ [][NextParse]_vars

-----------------------------------------------------------------------------
(* Properties of parseCSV: empty results and the line-by-line parse *)

\* C19: parseCSV returns no record when no header line is found, and when
\* the header is found but its section has no line that is neither blank
\* nor a comment.
C19_EmptyWithoutHeaderOrRows ==
    pc = "parsed" =>
        /\ HeaderCandidates = {} => records = <<>>
        /\ (scan.headerIndex # 0 /\ SectionRows(scan.headerIndex) = {}) => records = <<>>

\* the header was found and only comment or blank lines follow it in the
\* section, with a data line after the section's boundary
C19_Witness ==
    /\ pc = "parsed"
    /\ scan.headerIndex # 0
    /\ scan.headerIndex + 1 < scan.dataEndIndex
    /\ scan.dataEndIndex < Len(FileLines)
    /\ SectionRows(scan.headerIndex) = {}
    /\ \E i \in (scan.dataEndIndex + 1)..Len(FileLines) :
           ~IsBlank(FileLines[i]) /\ ~IsComment(FileLines[i])
    /\ records = <<>>

\* the structured parse of the section throws
StructuredParseFails ==
    /\ scan.headerIndex # 0
    /\ SectionRows(scan.headerIndex) # {}
    /\ Parse(FileLines[scan.headerIndex],
             [k \in 1..Cardinality(SectionRows(scan.headerIndex)) |->
                 FileLines[Ascending(SectionRows(scan.headerIndex))[k]]]).failed

\* the trimmed comma-split fields of a line
Fields(raw) == [k \in 1..Len(Split(raw, ",")) |-> Trim(Split(raw, ",")[k])]

\* C20: when the structured parse fails parseCSV returns one record per
\* surviving data line, keyed by the trimmed comma-split header columns; the
\* value of the k-th column is the trimmed k-th comma-split field of the
\* line, the empty string when the line has fewer fields.
C20_LineByLineFallback ==
    (pc = "parsed" /\ StructuredParseFails) =>
        LET rows == Ascending(SectionRows(scan.headerIndex))
            cols == Fields(FileLines[scan.headerIndex])
        IN  /\ Len(records) = Len(rows)
            /\ \A k \in 1..Len(rows) :
                /\ {records[k][j][1] : j \in 1..Len(records[k])}
                      = {cols[j] : j \in 1..Len(cols)}
                /\ \A j \in 1..Len(cols) :
                      Get(records[k], cols[j])
                        = IF j <= Len(Fields(FileLines[rows[k]]))
                          THEN Fields(FileLines[rows[k]])[j]
                          ELSE <<>>

\* the structured parse has thrown on a section of several lines, one of
\* which has fewer fields than the header has columns
C20_Witness ==
    /\ pc = "parsed"
    /\ StructuredParseFails
    /\ Len(records) >= 2
    /\ \E k \in 1..Len(records) :
        /\ Len(Fields(FileLines[Ascending(SectionRows(scan.headerIndex))[k]])) = 1
        /\ Get(records[k], <<"b">>) = <<>>
        /\ Get(records[k], <<"a">>) # <<>>

-----------------------------------------------------------------------------
(* Specification of the report: generateReportData (getDashboardSummary,    *)
(* then convertToCSV) on exports of up to MaxReportRows screens and events, *)
(* long enough for each of the cuts at 20, 30 and 50 entries to happen.     *)

MaxReportRows == 51

\* the lengths tried: the short ones and those next to a cut
ReportSizes ==
    {n \in 0..MaxReportRows : n <= 2 \/ n \in 20..21 \/ n \in 30..31 \/ n >= 50}

\* "Home, Main": a page title with a comma, quoted in the export
CommaTitle == <<"H","o","m","e",","," ","M","a","i","n">>

\* the cells of the k-th row of the screens export
ScreenCells(k) ==
    <<IF k = 2 THEN NotSet ELSE IF k = 3 THEN CommaTitle ELSE <<"S">> \o NatDigits(k),
      NatDigits(10 * ((k * 7) % 13)),
      NatDigits(k % 4),
      <<"1", ".", "2", "5">>,
      IF k % 3 = 0 THEN <<"0">> ELSE NatDigits(k) \o <<".", "3", "4">>,
      NatDigits(k % 5),
      <<"0">>,
      <<"0">> >>

\* the name of the k-th row of the events export
ReportEventName(k) ==
    CASE k = 1 -> EvScreenView
      [] k = 2 -> EvFirstOpen
      [] k = 3 -> <<"S", "1">>
      [] k = 4 -> EvSessionStart
      [] k = 5 -> MenuLoginName
      [] k = 7 -> EvAppUpdate
      [] k = 8 -> EvOsUpdate
      [] k = 9 -> EvUserEngagement
      [] OTHER -> <<"e">> \o NatDigits(k)

EventCells(k) ==
    <<ReportEventName(k),
      NatDigits(10 * ((k * 5) % 11) + 1),
      NatDigits(k % 6),
      <<"2", ".", "5">>,
      <<"0">> >>

\* the rows loadScreenViewsData returns for an export of n rows
ReportScreens(n) == [k \in 1..n |-> ScreenRow(ColumnRecord(Cells(ScHeader), ScreenCells(k)))]

\* the rows loadEventsData returns for an export of n rows
ReportEvents(n) == [k \in 1..n |-> EventRow(ColumnRecord(Cells(EvHeader), EventCells(k)))]


ReportRange ==
    [startDate |-> <<"2","0","2","4","-","0","1","-","0","1">>,
     endDate   |-> <<"2","0","2","4","-","0","1","-","3","1">>]

InitReport ==
    /\ pc = "report"
    /\ content = <<>>
    /\ sectionHeader = <<>>
    /\ scan = NoScan
    /\ records = <<>>
    /\ loader = "none"
    /\ result = NoResult
    /\ \E n \in ReportSizes : events = ReportEvents(n)
    /\ \E n \in ReportSizes : screenViews = ReportScreens(n)
    /\ topFeatures = <<>>
    /\ features = <<>>
    /\ folder = NoFolder
    /\ today = NoDate
    /\ pattern = <<>>
    /\ located = Null
    /\ dateRange = ReportRange
    /\ response = NoResponse
    /\ folderName \in {DefaultFolder, ProjectFolder}
    /\ summary = <<>>
    /\ csvData = <<>>
    /\ NoPage
    /\ NoPath

\* const summary = this.getDashboardSummary();
GetDashboardSummary ==
    /\ pc = "report"
    /\ summary' = Summary(<<>>, events, screenViews, dateRange).summary[1]
    /\ topFeatures' = summary'.topFeatures
    /\ features' = summary'.featureUsageDetails
    /\ pc' = "summarised"
    /\ UNCHANGED <<parseVars, loadVars, events, screenViews, requestVars, folderName, csvData, pageVars, pathVars>>

\* const csvData = this.convertToCSV(summary, folder);
ConvertToCSV ==
    /\ pc = "summarised"
    /\ csvData' = convertToCSV(summary, folderName)
    /\ pc' = "reported"
    /\ UNCHANGED <<parseVars, loadVars, featureVars, requestVars, folderName, summary, pageVars, pathVars>>

NextReport == GetDashboardSummary \/ ConvertToCSV

SpecReport == InitReport /\ [][NextReport]_vars

-----------------------------------------------------------------------------
(* Properties of the summary and of the text report *)

\* the names analyzeFeatureUsage makes entries for
StatNames ==
    {screenViews[j].screenClass : j \in {i \in 1..Len(screenViews) : IsFeatureScreen(screenViews[i])}}
    \cup {events[i].eventName :
            i \in {j \in 1..Len(events) : events[j].eventName \notin ExcludedEventNames}}

\* the usageCount owed to the name n: the views of its screen plus the
\* eventCount of its events, none for the four excluded names
StatUsage(n) ==
    LET counted == IF n \in ExcludedEventNames THEN {} ELSE EventsNamed(n)
        fromEvents == SumEventCount(KeepAt(events, counted))
    IN  IF SeedsNamed(n) # {} THEN Add(SeedOf(n).views, fromEvents) ELSE fromEvents

\* C21: topFeatures is the first 50 entries, in non-increasing usageCount
\* order (ties in discovery order), of the merge of the non-sentinel screens
\* with the events other than session_start, app_update, os_update and
\* first_open; those four events neither make an entry nor add to one, and
\* topFeatures has at most 50 entries.
C21_TopFiftyWithoutSystemEvents ==
    pc \in {"summarised", "reported"} =>
        LET top == topFeatures
            in  == {top[k].featureName : k \in 1..Len(top)}
        IN  /\ Len(top) = Min(50, Cardinality(StatNames))
            /\ Cardinality(in) = Len(top)
            /\ in \subseteq StatNames
            /\ \A k \in 1..Len(top) : top[k].usageCount = StatUsage(top[k].featureName)
            /\ \A j, k \in 1..Len(top) :
                j < k =>
                    /\ ~Less(top[j].usageCount, top[k].usageCount)
                    /\ top[j].usageCount = top[k].usageCount
                          => FirstSeen(top[j].featureName) < FirstSeen(top[k].featureName)
            /\ \A n \in StatNames \ in :
                \A k \in 1..Len(top) :
                    /\ ~Less(top[k].usageCount, StatUsage(n))
                    /\ top[k].usageCount = StatUsage(n) => FirstSeen(top[k].featureName) < FirstSeen(n)

\* more than 50 names, cut to 50; excluded events in the export; an event
\* merged into the entry of its screen
C21_Witness ==
    /\ pc = "summarised"
    /\ Cardinality(StatNames) > 50
    /\ Len(topFeatures) = 50
    /\ \E i \in 1..Len(events) : events[i].eventName = EvFirstOpen
    /\ \E k \in 1..Len(topFeatures) :
        /\ SeedsNamed(topFeatures[k].featureName) # {}
        /\ EventsNamed(topFeatures[k].featureName) # {}

\* text.split('\n'), one half after the other
RECURSIVE SplitLines(_)
SplitLines(text) ==
    IF Len(text) = 0 THEN << <<>> >>
    ELSE IF Len(text) = 1 THEN (IF text = NL THEN << <<>>, <<>> >> ELSE <<text>>)
    ELSE LET half == Len(text) \div 2
             a == SplitLines(SubSeq(text, 1, half))
             b == SplitLines(SubSeq(text, half + 1, Len(text)))
         IN  SubSeq(a, 1, Len(a) - 1) \o <<a[Len(a)] \o b[1]>> \o SubSeq(b, 2, Len(b))

\* the line that carries the section title
TitleAt(lines, title) ==
    CHOOSE i \in 1..Len(lines) : lines[i] = title /\ \A j \in 1..(i - 1) : lines[j] # title

\* the data rows of the section: the lines after its header row, up to the
\* next blank line
RowsOfSection(lines, title) ==
    LET from   == TitleAt(lines, title) + 2
        blanks == {j \in from..Len(lines) : lines[j] = <<>>}
        to     == IF blanks = {} THEN Len(lines)
                  ELSE (CHOOSE j \in blanks : \A i \in blanks : j <= i) - 1
    IN  SubSeq(lines, from, to)

HeaderOfSection(lines, title) == lines[TitleAt(lines, title) + 1]

\* x to f decimals
Rounded(x, f) ==
    IF x.nan THEN NaN
    ELSE LET n == (2 * Abs(x.num) * Pow10(f) + x.den) \div (2 * x.den) IN
         Number((IF x.num < 0 THEN -1 ELSE 1) * n, Pow10(f))

\* the row splits into as many fields as the header, and each numeric column
\* reads back as the value given for it
ReadsBack(row, header, values) ==
    LET fields == Split(row, ",") IN
    /\ Len(fields) = Len(Split(header, ","))
    /\ \A c \in 1..Len(values) :
        values[c] # None => c <= Len(fields) /\ parseFloat(fields[c]) = values[c][1]

SectionReadsBack(lines, title, values) ==
    LET rows == RowsOfSection(lines, title) IN
    \A k \in 1..Min(Len(rows), Len(values)) :
        ReadsBack(rows[k], HeaderOfSection(lines, title), values[k])

ScreenViewValues(screen) ==
    <<None, Some(screen.views), Some(screen.activeUsers), Some(Rounded(screen.viewsPerUser, 2)),
      Some(Rounded(screen.avgEngagementTime, 1))>>

EngagementValues(screen) ==
    <<None, Some(screen.engagements), Some(screen.activeUsers),
      Some(Rounded(screen.avgEngagementTime, 1))>>

EventValues(event) ==
    <<None, Some(event.eventCount), Some(event.totalUsers),
      Some(Rounded(event.eventCountPerUser, 2))>>

TopScreenValues(screen) ==
    <<None, Some(screen.views), Some(screen.activeUsers),
      Some(Rounded(screen.viewsPerActiveUser, 2)), Some(Rounded(screen.avgEngagementTime, 1))>>

FeatureValues(feature) ==
    <<None, None, Some(feature.usageCount), Some(feature.uniqueUsers),
      Some(Rounded(feature.avgUsagePerUser, 2)),
      IF feature.engagementTime = None THEN None
      ELSE Some(Rounded(feature.engagementTime[1], 1))>>

TopFeatureValues(feature) ==
    <<None, None, Some(feature.usageCount), Some(feature.uniqueUsers),
      Some(Rounded(feature.avgUsagePerUser, 2))>>

SummaryValues ==
    << <<None, Some(summary.totalActiveUsers)>>,
       <<None, Some(summary.totalScreenViews)>>,
       <<None, Some(summary.totalEvents)>>,
       <<None, Some(Rounded(summary.engagementAnalysis.avgEngagementTime, 2))>> >>

\* C22: every data row of every section of the report splits on commas into
\* as many fields as the section's header row, and the field under each
\* numeric column reads back as the summary value it was built from
\* (integers exactly, rates to 2 decimals, times to 1 decimal).
C22_ReportReadsBack ==
    pc = "reported" =>
        LET lines == SplitLines(csvData)
            s == summary
        IN  /\ SectionReadsBack(lines, SummaryTitle, SummaryValues)
            /\ SectionReadsBack(lines, ScreenViewTitle,
                    [k \in 1..Len(ScreenViewRows(s)) |-> ScreenViewValues(ScreenViewRows(s)[k])])
            /\ SectionReadsBack(lines, EngagementTitle,
                    [k \in 1..Len(EngagementRows(s)) |-> EngagementValues(EngagementRows(s)[k])])
            /\ SectionReadsBack(lines, AllEventsTitle,
                    [k \in 1..Len(AllEventRows(s)) |-> EventValues(AllEventRows(s)[k])])
            /\ SectionReadsBack(lines, TopScreensTitle,
                    [k \in 1..Len(TopScreenRows(s)) |-> TopScreenValues(TopScreenRows(s)[k])])
            /\ SectionReadsBack(lines, FeatureUsageTitle,
                    [k \in 1..Len(FeatureUsageRows(s)) |-> FeatureValues(FeatureUsageRows(s)[k])])
            /\ SectionReadsBack(lines, TopFeaturesTitle,
                    [k \in 1..Len(TopFeatureRows(s)) |-> TopFeatureValues(TopFeatureRows(s)[k])])

\* the first rows of the section are the first entries of the list, in list
\* order, and there are exactly count rows
LeadingRows(lines, title, names, count) ==
    LET rows == RowsOfSection(lines, title) IN
    /\ Len(rows) = count
    /\ \A k \in 1..Len(rows) : k <= Len(names) /\ StartsWith(rows[k], names[k] \o Comma)

\* C23: the data rows of the sections are the leading entries, in list
\* order, of the summary lists: min(n, 30) of screenViewBreakdown, min(n, 30)
\* of engagementByScreen, all of topEvents, all of topScreens, min(n, 50) of
\* featureUsageDetails and min(n, 30) of topFeatures.
C23_RowsPerSection ==
    pc = "reported" =>
        LET lines == SplitLines(csvData)
            breakdown == summary.screenViewAnalysis.screenViewBreakdown
            engaged == summary.userEngagementAnalysis.engagementByScreen
        IN  /\ LeadingRows(lines, ScreenViewTitle,
                    [k \in 1..Len(breakdown) |-> breakdown[k].screenClass],
                    Min(Len(breakdown), 30))
            /\ LeadingRows(lines, EngagementTitle,
                    [k \in 1..Len(engaged) |-> engaged[k].screenClass],
                    Min(Len(engaged), 30))
            /\ LeadingRows(lines, AllEventsTitle,
                    [k \in 1..Len(summary.topEvents) |-> summary.topEvents[k].eventName],
                    Len(summary.topEvents))
            /\ LeadingRows(lines, TopScreensTitle,
                    [k \in 1..Len(summary.topScreens) |-> summary.topScreens[k].screenClass],
                    Len(summary.topScreens))
            /\ LeadingRows(lines, FeatureUsageTitle,
                    [k \in 1..Len(features) |-> features[k].featureName],
                    Min(Len(features), 50))
            /\ LeadingRows(lines, TopFeaturesTitle,
                    [k \in 1..Len(topFeatures) |-> topFeatures[k].featureName],
                    Min(Len(topFeatures), 30))

\* every cut happens: more than 30 screens in both analyses, more than 30
\* events, more than 50 features, more than 30 top features
C23_Witness ==
    /\ pc = "reported"
    /\ Len(summary.screenViewAnalysis.screenViewBreakdown) > 30
    /\ Len(summary.userEngagementAnalysis.engagementByScreen) > 30
    /\ Len(summary.topEvents) > 30
    /\ Len(summary.topScreens) = 20
    /\ Len(features) > 50
    /\ Len(topFeatures) > 30

-----------------------------------------------------------------------------
(* Properties of the folders route *)

\* the folder of the requests is in the list the folders route answered with
Listed ==
    LET names == response.body[1]
    IN  \E k \in 1..Len(names) : names[k] = ProjectFolder

\* some entry of the folder has a lowercased name that starts with the lowercased base
\* name of the file kind and ends with ".csv"
HasKind(pat) ==
    \E k \in 1..Len(folder.entries) :
        /\ StartsWith(ToLowerCase(folder.entries[k].name), ToLowerCase(BaseOf(pat)))
        /\ EndsWith(ToLowerCase(folder.entries[k].name), DotCsv)

\* one of the three loaders fails on the folder with file-not-found
SomeLoaderFindsNothing ==
    \/ \E o \in loadOverviewDataIn(folder) : o.error = FileNotFound
    \/ loadEventsDataIn(folder).error = FileNotFound
    \/ loadScreenViewsDataIn(folder).error = FileNotFound

\* C24: the folders route lists a subfolder of data exactly when it has, for each of
\* the three file kinds, an entry whose lowercased name starts with the base name of
\* the kind and ends with ".csv"; the loaders locate all three files of a listed
\* folder, and one of them fails with file-not-found on an unlisted existing folder.
C24_FoldersAgreeWithLoaders ==
    pc = "listed" =>
        /\ response.status = 200
        /\ Listed <=> (/\ folder.exists
                       /\ HasKind(PatternOverview)
                       /\ HasKind(PatternEvents)
                       /\ HasKind(PatternScreens))
        /\ Listed =>
              /\ OverviewPath(folder) # Null
              /\ EventsPath(folder) # Null
              /\ ScreensPath(folder) # Null
              /\ ~SomeLoaderFindsNothing
        /\ (~Listed /\ folder.exists) => SomeLoaderFindsNothing

\* a folder was listed whose events and screens files are found by their lowercased
\* names only
C24_Witness ==
    /\ pc = "listed"
    /\ Listed
    /\ \A k \in 1..Len(folder.entries) :
          folder.entries[k].name \notin {PatternEvents1, PatternEvents,
                                         PatternScreens1, PatternScreens}

-----------------------------------------------------------------------------
(* Properties of the features of a single source record *)

\* the positions of the screens of class n
ScreensNamed(n) == {j \in 1..Len(screenViews) : screenViews[j].screenClass = n}

\* the positions of the features named n
FeaturesNamed(n) == {k \in 1..Len(features) : features[k].featureName = n}

\* the feature named n, when there is exactly one
FeatureNamed(n) == features[CHOOSE k \in FeaturesNamed(n) : TRUE]

\* C25: a feature whose name occurs in exactly one source record carries the values
\* of that record: for a screen that is not "(not set)" or "(other)" the type screen,
\* usageCount = views, uniqueUsers = activeUsers, avgUsagePerUser =
\* viewsPerActiveUser and engagementTime = avgEngagementTime; for an event
\* usageCount = eventCount, uniqueUsers = totalUsers and avgUsagePerUser =
\* eventCountPerUser.
C25_SingleRecordUnmerged ==
    pc = "done" =>
        /\ \A j \in 1..Len(screenViews) :
              LET screen == screenViews[j]
                  n == screen.screenClass
              IN  (n \notin {NotSet, Other} /\ ScreensNamed(n) = {j} /\ EventsNamed(n) = {})
                  => /\ Cardinality(FeaturesNamed(n)) = 1
                     /\ FeatureNamed(n).featureType = "screen"
                     /\ FeatureNamed(n).usageCount = screen.views
                     /\ FeatureNamed(n).uniqueUsers = screen.activeUsers
                     /\ FeatureNamed(n).avgUsagePerUser = screen.viewsPerActiveUser
                     /\ FeatureNamed(n).engagementTime = Some(screen.avgEngagementTime)
        /\ \A i \in 1..Len(events) :
              LET event == events[i]
                  n == event.eventName
              IN  (EventsNamed(n) = {i} /\ ScreensNamed(n) = {})
                  => /\ Cardinality(FeaturesNamed(n)) = 1
                     /\ FeatureNamed(n).usageCount = event.eventCount
                     /\ FeatureNamed(n).uniqueUsers = event.totalUsers
                     /\ FeatureNamed(n).avgUsagePerUser = event.eventCountPerUser

\* a screen and a menu event, each the only record of its name, are both among the
\* features, the screen with its views and the event with its count
C25_Witness ==
    /\ pc = "done"
    /\ \E j \in 1..Len(screenViews), i \in 1..Len(events) :
          /\ screenViews[j].screenClass \notin {NotSet, Other}
          /\ ScreensNamed(screenViews[j].screenClass) = {j}
          /\ EventsNamed(screenViews[j].screenClass) = {}
          /\ EventsNamed(events[i].eventName) = {i}
          /\ ScreensNamed(events[i].eventName) = {}
          /\ StartsWith(events[i].eventName, <<"m","e","n","u","_">>)
          /\ \E a, b \in 1..Len(features) :
                /\ features[a].featureName = screenViews[j].screenClass
                /\ features[a].featureType = "screen"
                /\ features[a].usageCount = screenViews[j].views
                /\ features[b].featureName = events[i].eventName
                /\ features[b].featureType = "menu"
                /\ features[b].usageCount = events[i].eventCount

-----------------------------------------------------------------------------
(* Properties of the event names loadEventsData returns *)

\* C26: no two records of the list loadEventsData returns have the same eventName.
C26_OneRecordPerEventName ==
    (pc = "loaded" /\ loader = "events") =>
        \A a, b \in 1..Len(result.rows) :
            result.rows[a].eventName = result.rows[b].eventName => a = b

-----------------------------------------------------------------------------
(* Properties of the feature names *)

\* the names of the features of the input: the screen classes other than the two
\* sentinels, and the event names
SourceNames ==
    {screenViews[j].screenClass :
        j \in {i \in 1..Len(screenViews) : screenViews[i].screenClass \notin {NotSet, Other}}}
    \cup
    {events[i].eventName : i \in 1..Len(events)}

\* C27: no two entries of featureUsageDetails and no two entries of topFeatures have
\* the same featureName, also when a screen class or an event name is repeated in the
\* input, and featureUsageDetails has as many entries as there are distinct names
\* among the non-sentinel screen classes and the event names.
C27_FeatureNamesUnique ==
    pc = "done" =>
        /\ \A a, b \in 1..Len(features) :
              features[a].featureName = features[b].featureName => a = b
        /\ \A a, b \in 1..Len(topFeatures) :
              topFeatures[a].featureName = topFeatures[b].featureName => a = b
        /\ Len(features) = Cardinality(SourceNames)

\* the input repeats a screen class and an event name, and the name is shared by a
\* screen and an event
C27_Witness ==
    /\ pc = "done"
    /\ \E a, b \in 1..Len(screenViews) :
          a # b /\ screenViews[a].screenClass = screenViews[b].screenClass
    /\ \E a, b \in 1..Len(events) :
          /\ a # b
          /\ events[a].eventName = events[b].eventName
          /\ \E j \in 1..Len(screenViews) : screenViews[j].screenClass = events[a].eventName
    /\ Len(features) < Len(screenViews) + Len(events)

-----------------------------------------------------------------------------
(* Specification of the DashboardContent page *)

MaxFetches == 3

\* the values of the folder parameter of the URL: absent, or a folder name
PageParams == {<<>>, DefaultFolder, ProjectFolder}

\* searchParams.get('folder') || 'default'
FolderOfParams(sp) == IF sp = <<>> THEN DefaultFolder ELSE sp

\* throw new Error('Failed to fetch analytics data'), and the message of a
\* rejected fetch
FailedToFetch == "Failed to fetch analytics data"
NetworkError == "fetch failed"

\* what the page returns: the loading view, the error view, the "No data
\* available" view or the dashboard
View ==
    IF loading THEN "loading"
    ELSE IF error # None THEN "error"
    ELSE IF data = None THEN "empty"
    ELSE "dashboard"

\* the calls of fetchDashboardData that await their response
InFlight == {id \in 1..Len(calls) : calls[id].state = "pending"}

\* fetchDashboardData(folder) up to its await: setLoading(true) and the request
FetchDashboardData(f) ==
    /\ loading' = TRUE
    /\ calls' = Append(calls, [folder |-> f, state |-> "pending"])

\* the effect on searchParams: setSelectedFolder(folder); fetchFolders();
\* fetchDashboardData(folder)
Effect(sp) ==
    /\ selectedFolder' = FolderOfParams(sp)
    /\ foldersPending' = foldersPending + 1
    /\ FetchDashboardData(FolderOfParams(sp))

InitPage ==
    /\ pc = "page"
    /\ content = <<>>
    /\ sectionHeader = <<>>
    /\ scan = NoScan
    /\ records = <<>>
    /\ loader = "none"
    /\ result = NoResult
    /\ NoFeatures
    /\ NoRequest
    /\ NoReport
    /\ NoPath
    /\ searchParams \in {<<>>, ProjectFolder}
    /\ selectedFolder = DefaultFolder
    /\ data = None
    /\ loading = TRUE
    /\ error = None
    /\ folders = <<>>
    /\ navigation = None
    /\ calls = <<>>
    /\ foldersPending = 0

\* the first render and its effect
Mount ==
    /\ pc = "page"
    /\ Effect(searchParams)
    /\ pc' = "mounted"
    /\ UNCHANGED <<parseVars, loadVars, featureVars, requestVars, reportVars, pathVars,
                   searchParams, data, error, folders, navigation>>

\* the URL router.push asked for becomes current, and the effect runs
Navigate ==
    /\ pc = "mounted"
    /\ navigation # None
    /\ Len(calls) < MaxFetches
    /\ searchParams' = navigation[1]
    /\ navigation' = None
    /\ Effect(navigation[1])
    /\ UNCHANGED <<pc, parseVars, loadVars, featureVars, requestVars, reportVars, pathVars,
                   data, error, folders>>

\* the browser goes back or forward to a URL with another folder parameter, and
\* the effect runs
HistoryChange ==
    /\ pc = "mounted"
    /\ navigation = None
    /\ Len(calls) < MaxFetches
    /\ \E sp \in PageParams \ {searchParams} :
        /\ searchParams' = sp
        /\ Effect(sp)
    /\ UNCHANGED <<pc, parseVars, loadVars, featureVars, requestVars, reportVars, pathVars,
                   data, error, folders, navigation>>

\* handleFolderChange(folder), from the selector of the dashboard
HandleFolderChange ==
    /\ pc = "mounted"
    /\ View = "dashboard"
    /\ navigation = None
    /\ Len(calls) < MaxFetches
    /\ \E k \in 1..Len(folders) :
        /\ folders[k] # selectedFolder
        /\ selectedFolder' = folders[k]
        /\ navigation' = Some(folders[k])
    /\ UNCHANGED <<pc, parseVars, loadVars, featureVars, requestVars, reportVars, pathVars,
                   searchParams, data, loading, error, folders, calls, foldersPending>>

\* onRefresh: fetchDashboardData(selectedFolder), from the button of the dashboard
Refresh ==
    /\ pc = "mounted"
    /\ View = "dashboard"
    /\ Len(calls) < MaxFetches
    /\ FetchDashboardData(selectedFolder)
    /\ UNCHANGED <<pc, parseVars, loadVars, featureVars, requestVars, reportVars, pathVars,
                   searchParams, selectedFolder, data, error, folders, navigation,
                   foldersPending>>

\* a call of fetchDashboardData gets an ok response: setData(result), and
\* setLoading(false) in the finally
ResponseOk ==
    /\ pc = "mounted"
    /\ \E id \in InFlight :
        /\ data' = Some([folder |-> calls[id].folder, call |-> id])
        /\ calls' = [calls EXCEPT ![id].state = "ok"]
    /\ loading' = FALSE
    /\ UNCHANGED <<pc, parseVars, loadVars, featureVars, requestVars, reportVars, pathVars,
                   searchParams, selectedFolder, error, folders, navigation, foldersPending>>

\* a call of fetchDashboardData gets a response that is not ok, or its fetch is
\* rejected: setError(message) in the catch, and setLoading(false) in the finally
ResponseFailed ==
    /\ pc = "mounted"
    /\ \E id \in InFlight :
        calls' = [calls EXCEPT ![id].state = "failed"]
    /\ \E message \in {FailedToFetch, NetworkError} : error' = Some(message)
    /\ loading' = FALSE
    /\ UNCHANGED <<pc, parseVars, loadVars, featureVars, requestVars, reportVars, pathVars,
                   searchParams, selectedFolder, data, folders, navigation, foldersPending>>

\* a call of fetchFolders settles: setFolders(result.folders || []) when the
\* response is ok, nothing otherwise
FoldersResponse ==
    /\ pc = "mounted"
    /\ foldersPending > 0
    /\ foldersPending' = foldersPending - 1
    /\ folders' \in {folders, <<>>, <<DefaultFolder, ProjectFolder>>}
    /\ UNCHANGED <<pc, parseVars, loadVars, featureVars, requestVars, reportVars, pathVars,
                   searchParams, selectedFolder, data, loading, error, navigation, calls>>

NextPage ==
    \/ Mount
    \/ Navigate
    \/ HistoryChange
    \/ HandleFolderChange
    \/ Refresh
    \/ ResponseOk
    \/ ResponseFailed
    \/ FoldersResponse

SpecPage == InitPage /\ [][NextPage]_vars

-----------------------------------------------------------------------------
(* Properties of the DashboardContent page *)

\* C28: once no call of fetchDashboardData is in flight (and no URL change is under
\* way), the data of the dashboard is the response to a fetch issued for the selected
\* folder; and loading is not false while a fetch for the selected folder is in flight.
C28_NoStaleResponse ==
    pc = "mounted" =>
        /\ (InFlight = {} /\ navigation = None /\ View = "dashboard")
              => data[1].folder = selectedFolder
        /\ (\E id \in InFlight : calls[id].folder = selectedFolder) => loading

\* a call of fetchDashboardData settles in the step
Settles ==
    /\ Len(calls') = Len(calls)
    /\ \E id \in InFlight : calls'[id].state # "pending"

\* C29: whenever the most recent call of fetchDashboardData has completed with an ok
\* response the page returns the dashboard with its data, not the error view, whatever
\* the earlier calls did; and every call that settles leaves loading false.
C29_SuccessClearsError ==
    [][/\ (calls' # <<>> /\ calls'[Len(calls')].state = "ok")
            => (error' = None /\ data' # None)
       /\ Settles => ~loading']_vars

-----------------------------------------------------------------------------
(* Specification of the directory of the repository of a route *)

MaxPathLen == 4

\* path.sep, and the directory the server runs in
Sep == "/"
Cwd == <<"/","a","p","p">>
DataName == <<"d","a","t","a">>
Dot == <<".">>
DotDot == <<".",".">>

\* the values of the folder query parameter: texts of a letter, the dot and the
\* separator (the empty text stands for an absent parameter too)
PathChars == {"a", ".", Sep}
Queries == SeqsUpTo(PathChars, MaxPathLen)

isAbsolute(p) == p # <<>> /\ p[1] = Sep

\* the segments of a path from the root, "" and "." left out and ".." taking the
\* segment before it away
RECURSIVE NormalizeSegments(_, _)
NormalizeSegments(done, rest) ==
    IF rest = <<>> THEN done
    ELSE LET s == rest[1]
             next == IF s = <<>> \/ s = Dot THEN done
                     ELSE IF s = DotDot
                     THEN (IF done = <<>> THEN <<>> ELSE SubSeq(done, 1, Len(done) - 1))
                     ELSE Append(done, s)
         IN  NormalizeSegments(next, Tail(rest))

\* path.resolve(p): the segments from the root of the directory the file system
\* reads for the path p, a relative one taken from process.cwd()
Resolve(p) ==
    IF isAbsolute(p) THEN NormalizeSegments(<<>>, Split(p, Sep))
    ELSE NormalizeSegments(<<>>, Split(Cwd \o <<Sep>> \o p, Sep))

\* path.join(process.cwd(), ...parts): the parts joined by the separator and
\* normalised
PathJoin(parts) ==
    <<Sep>> \o Join(NormalizeSegments(<<>>, Split(Join(parts, <<Sep>>), Sep)), <<Sep>>)

\* new CSVAnalyticsRepository(csvDir): the value of this.csvDir
constructor(dir) ==
    IF dir # <<>>
    THEN IF ~isAbsolute(dir) /\ ~Includes(dir, <<Sep>>)
         THEN PathJoin(<<Cwd, DataName, dir>>)
         ELSE dir
    ELSE PathJoin(<<Cwd, DataName, DefaultFolder>>)

InitPath ==
    /\ pc = "route"
    /\ content = <<>>
    /\ sectionHeader = <<>>
    /\ scan = NoScan
    /\ records = <<>>
    /\ loader = "none"
    /\ result = NoResult
    /\ NoFeatures
    /\ NoRequest
    /\ NoReport
    /\ NoPage
    /\ query \in Queries
    /\ csvDir = <<>>

\* GET /api/analytics?folder=...: new CSVAnalyticsRepository(folder)
AnalyticsRepository ==
    /\ pc = "route"
    /\ csvDir' = constructor(FolderOfParams(query))
    /\ pc' = "analytics"
    /\ UNCHANGED <<parseVars, loadVars, featureVars, requestVars, reportVars, pageVars, query>>

\* GET /api/analytics/report?folder=...: new CSVAnalyticsRepository(folder)
ReportRepository ==
    /\ pc = "route"
    /\ csvDir' = constructor(FolderOfParams(query))
    /\ pc' = "reporting"
    /\ UNCHANGED <<parseVars, loadVars, featureVars, requestVars, reportVars, pageVars, query>>

NextPath == AnalyticsRepository \/ ReportRepository

SpecPath == InitPath /\ [][NextPath]_vars

-----------------------------------------------------------------------------
(* Properties of the directory of the repository *)

\* C30: whatever the folder query parameter of the analytics or the report route is,
\* the directory the repository lists and reads lies inside <cwd>/data.
C30_ReadsInsideData ==
    pc \in {"analytics", "reporting"} =>
        LET dir == Resolve(csvDir)
            dataDir == Resolve(PathJoin(<<Cwd, DataName>>))
        IN  Len(dir) >= Len(dataDir) /\ SubSeq(dir, 1, Len(dataDir)) = dataDir
====
